---- MODULE Spec2Model ----
(***************************************************************************)
(* Session / authentication lifecycle of glass-traceability.               *)
(*                                                                         *)
(*   User Session Manager            hooks/useAuth.ts  (src/unnamed/part_002) *)
(*   Station Service-Credential Mgr  lib/service-auth.ts (src/unnamed/part_000) *)
(*                                                                         *)
(* Every await in the source is a suspension point: the code before it is  *)
(* one action, the code after it (up to the next await) another one, and   *)
(* the suspended call is a record in the bag `tasks`.  The store's answers *)
(* and the order in which timers, events and answers arrive are chosen     *)
(* nondeterministically.                                                   *)
(*                                                                         *)
(* useAuth is a React hook.  Callbacks made with useCallback and the body  *)
(* of useEffect read `authState` from the render that created them, so the *)
(* model keeps, next to the current authState, the snapshot `closure` that *)
(* the callbacks of the current effect run see.                            *)
(***************************************************************************)
EXTENDS Integers, Sequences, FiniteSets, Bags, TLC

NULL == "null"

(* ---------------------------------------------------------------------- *)
(* Bounds of the model                                                     *)
(* ---------------------------------------------------------------------- *)
MaxStimuli == 3        \* auth events, consumer calls, timer expiries, store failures in one run
MaxRetryRun == 5       \* the same, in the runs of the renewal machinery alone
MaxOverlapRun == 6     \* renewals started by hand and store failures, in the runs of overlapping renewals
MaxEventRun == 12      \* pushed events in the runs of the event stream
MaxStationCalls == 3   \* station operations and store failures in one run
MaxClock == 12         \* hours a run of the station lasts
TickHours == 2         \* hours between two readings of the clock
MaxLoopRun == 2        \* stimuli and store failures in the runs of the loop detector
MaxLoopClock == 12000  \* milliseconds a run of the loop detector lasts
LoopTickMs == 6000     \* milliseconds between two readings of Date.now()
MaxGuardSteps == 3      \* stimuli reaching one mounted guard
MaxGuardClock == 45000  \* milliseconds a guard run lasts
GuardTickMs == 15000    \* milliseconds between two looks at the guard's timers
MaxInches == 99         \* whole inches of the dimensions a run starts from
MaxTimerSteps == 4      \* calls that arm or clear a timer line in one run
MaxTimerClockMs == 1122000  \* Date.now() at which a run of the timer lines ends
TimerTickMs == 30500    \* milliseconds of one step of the timer runs' clock
MaxThrottleSteps == 6   \* interaction events and clock steps of a run of the throttle
LongTickMs == 30000     \* milliseconds of the long step of the throttle runs' clock
ShortTickMs == 1        \* milliseconds of the short step of the throttle runs' clock
MaxScanSteps == 6       \* inputs of the operator and store failures in a run of the scanner page

(* ---------------------------------------------------------------------- *)
(* Program constants                                                       *)
(* ---------------------------------------------------------------------- *)
maxRetries == 3
InactivityMs == 1800000
RefreshLeadMs == 300000
MinLongMs == 60000
ShortLeadMs == 10000
ShortFloorMs == 5000
MaxProcessed == 10
KeepProcessed == 5
SessionHours == 12     \* service-auth.ts:58, 110
RefreshHours == 10     \* service-auth.ts:97
LoopThresholdMs == 10000     \* useAuth.ts:59
LoadingTimeoutMs == 15000    \* AuthGuard.tsx:54
EmergencyTimeoutMs == 30000  \* AuthGuard.tsx:60
ProfileRetries == 3          \* AuthGuard.tsx:90
ThrottleDelayMs == 60000     \* useAuth.ts:536

(* ---------------------------------------------------------------------- *)
(* Values                                                                  *)
(* ---------------------------------------------------------------------- *)
\* The instant every Date.now() of the session-manager specification reads,
\* in seconds, and the expires_at values (seconds) of the sessions the store
\* hands out.
NowS == 1000
ExpA == NowS + 3600
ExpB == NowS + 7200
MkSession(u, e) == [user |-> u, expires_at |-> e]
NoSession == MkSession(NULL, 0)     \* session: null
\* The session the store's session layer holds when the hook mounts, the
\* same subject renewed, and a session of another subject.
PersistedSession == MkSession("u1", ExpA)
RenewedSession == MkSession("u1", ExpB)
OtherSession == MkSession("u2", ExpA)


VARIABLES
  authState,        \* useState<AuthState>: user, profile, session, loading, isRefreshing
  initialized,      \* useState(false)
  closure,          \* what the callbacks of the current effect run captured
  retryCount,       \* retryCountRef.current
  authLoopDetected, \* useState(false)
  processedEvents,  \* processedEventsRef.current, in insertion order
  refreshTimer,     \* renewal-timer line: delays (ms) of the pending timers it holds
  activityTimer,    \* inactivity-timer line: delays (ms) of the pending timers it holds
  retryTimers,      \* pending setTimeout(() => refreshSession(true), delay): bag of delays
  tasks,            \* bag of suspended async calls
  fuel,             \* auth events, consumer calls, timer expiries and store failures to come
  last              \* the step just taken and what it did

authVars == <<authState, initialized, closure, retryCount, authLoopDetected,
              processedEvents, refreshTimer, activityTimer, retryTimers, tasks,
              fuel, last>>


(* ---------------------------------------------------------------------- *)
(* Pure helpers of useAuth                                                 *)
(* ---------------------------------------------------------------------- *)

\* setupTokenRefresh: the delay (ms) of the timer it arms for a session that
\* expires at `exp` (s) when the clock reads `now` (s), as the set of timers
\* it arms: empty when it arms none.
\* Faulty variant of timeUntilRefreshDelay: the timer is aimed at the expiry
\* itself, without the five-minute lead.
timeUntilRefreshDelayNoLead(expires_at, nowMs) ==
  LET timeUntilRefresh == expires_at * 1000 - nowMs
  IN  IF timeUntilRefresh > MinLongMs THEN {timeUntilRefresh}
      ELSE IF timeUntilRefresh > 0
           THEN IF timeUntilRefresh - ShortLeadMs > ShortFloorMs
                THEN {timeUntilRefresh - ShortLeadMs} ELSE {ShortFloorMs}
           ELSE {}

\* The delay of the timer that setupTokenRefresh arms (227-250) for a
\* session expiring at expires_at (seconds) when Date.now() is nowMs; the
\* empty set when it arms none.
timeUntilRefreshDelay(expires_at, nowMs) ==
  LET timeUntilRefresh == expires_at * 1000 - RefreshLeadMs - nowMs
  IN  IF timeUntilRefresh > MinLongMs THEN {timeUntilRefresh}
      ELSE IF timeUntilRefresh > 0
           THEN IF timeUntilRefresh - ShortLeadMs > ShortFloorMs
                THEN {timeUntilRefresh - ShortLeadMs} ELSE {ShortFloorMs}
           ELSE {}

TokenRefreshDelay(exp, now) == timeUntilRefreshDelay(exp, now * 1000)

\* setupTokenRefresh(session): the renewal-timer line afterwards.  The
\* previous timer is cleared first; without expires_at nothing is armed.
setupTokenRefresh(session) ==
  IF session.expires_at = 0 THEN {} ELSE TokenRefreshDelay(session.expires_at, NowS)

\* updateLastActivity(): the inactivity-timer line afterwards.
updateLastActivity == {InactivityMs}

\* `${event}-${session?.user?.id || 'null'}-${session?.expires_at || 'null'}`
eventKey(event, session) == <<event, session.user, session.expires_at>>

SeqToSet(s) == {s[i] : i \in 1..Len(s)}

\* processedEventsRef after add(eventKey) and the clean-up that follows it.
\* Faulty variant of addProcessed: the fingerprint is not recorded.
addProcessedForgetful(seq, key) == seq

addProcessed(seq, key) ==
  LET added == Append(seq, key)
  IN  IF Len(added) > MaxProcessed
      THEN SubSeq(added, Len(added) - KeepProcessed + 1, Len(added))
      ELSE added

\* Faulty variant of retryDelay: linear instead of exponential backoff.
retryDelayLinear(n) == n * 1000

\* Exponential backoff delay of the retry scheduled at retry count n.
retryDelay(n) == (2 ^ n) * 1000

\* Faulty variant of Unauthenticated: the profile survives.
UnauthenticatedKeepsProfile(st) ==
  [st EXCEPT !.user = NULL, !.session = NoSession]

Unauthenticated(st) ==
  [st EXCEPT !.user = NULL, !.profile = NULL, !.session = NoSession]

Task(root, pc, uid, fr, mounted) ==
  [root |-> root, pc |-> pc, uid |-> uid, fr |-> fr, mounted |-> mounted]

Add(bag, t) == bag (+) SetToBag({t})
Remove(bag, t) == bag (-) SetToBag({t})

\* `last`: the operation of the step just taken, what it did, the session
\* an auth event carried, and the retry counter a renewal's answer found.
StepOf(op, out, arg, pre) == [op |-> op, out |-> out, arg |-> arg, pre |-> pre]
Step(op, out) == StepOf(op, out, NoSession, 0)

\* A store answer: a failure is one of the bounded number of stimuli.
Fault(failed) ==
  IF failed THEN fuel > 0 /\ fuel' = fuel - 1
  ELSE UNCHANGED fuel

\* An exception is classified like the error result with the same message.
Outcome(res) ==
  IF res = "throwInvalid" THEN "invalid"
  ELSE IF res = "throwTransient" THEN "transient" ELSE res

(* ---------------------------------------------------------------------- *)
(* Initial state: the hook has mounted, its effect has called              *)
(* initializeAuth() (suspended in getSession) and subscribed to events.    *)
(* ---------------------------------------------------------------------- *)
InitAuth(budget) ==
  /\ authState = [user |-> NULL, profile |-> NULL, session |-> NoSession,
                  loading |-> TRUE, isRefreshing |-> FALSE]
  /\ initialized = FALSE
  /\ closure = [isRefreshing |-> FALSE, user |-> NULL, profile |-> NULL,
                session |-> NoSession]
  /\ retryCount = 0
  /\ authLoopDetected = FALSE
  /\ processedEvents = <<>>
  /\ refreshTimer = {}
  /\ activityTimer = {}
  /\ retryTimers = EmptyBag
  /\ tasks = SetToBag({Task("fetch", "getSession", NULL, 0, TRUE)})
  /\ fuel = budget
  /\ last = Step("mount", "none")


(* ---------------------------------------------------------------------- *)
(* refreshSession (useAuth.ts 96-184)                                      *)
(* ---------------------------------------------------------------------- *)

\* The in-flight guard: `authState.isRefreshing && !forceRefresh`, where
\* authState is the one the calling closure captured.
refreshGuard(capturedRefreshing, forceRefresh) == capturedRefreshing /\ ~forceRefresh

\* The retry decision after retryCountRef.current++ gave n.
retryScheduled(n) == n < maxRetries

\* The code of initializeAuth and of the event handler after
\* `await fetchProfile(...)` returned p, guarded by isMounted.
AfterFetch(st, t, p) ==
  IF t.root = "fetch" /\ t.mounted
  THEN [st EXCEPT !.profile = p, !.loading = FALSE] ELSE st

InitializedAfter(t) == initialized \/ (t.root = "fetch" /\ t.mounted)

\* refreshSession(true) through the exposed manualRefresh (625-628).
ManualRefresh ==
  /\ fuel > 0
  /\ fuel' = fuel - 1
  /\ authState' = [authState EXCEPT !.isRefreshing = TRUE]
  /\ tasks' = Add(tasks, Task("manual", "refresh", NULL, 0, TRUE))
  /\ last' = Step("manualRefresh", "storeCall")
  /\ UNCHANGED <<initialized, closure, retryCount, authLoopDetected, processedEvents,
                 refreshTimer, activityTimer, retryTimers>>

\* A non-forced refreshSession() called by a timer callback whose closure
\* captured isRefreshing = captured.
TimerRefresh(op, captured) ==
  IF refreshGuard(captured, FALSE)
  THEN /\ last' = Step(op, "guarded")
       /\ UNCHANGED <<authState, tasks>>
  ELSE
       /\ authState' = [authState EXCEPT !.isRefreshing = TRUE]
       /\ tasks' = Add(tasks, Task("timer", "refresh", NULL, 0, TRUE))
       /\ last' = Step(op, "storeCall")

\* The renewal timer fires (236-246): refreshSession() of the render that
\* armed it.
RefreshTimerFire ==
  /\ refreshTimer # {} /\ fuel > 0
  /\ fuel' = fuel - 1
  /\ refreshTimer' = {}
  /\ TimerRefresh("refreshTimer", closure.isRefreshing)
  /\ UNCHANGED <<initialized, closure, retryCount, authLoopDetected, processedEvents,
                 activityTimer, retryTimers>>

\* The inactivity timer fires (89-92).  updateLastActivity is memoised with
\* no dependencies, so its refreshSession is the one of the first render,
\* whose authState.isRefreshing is the initial false.
ActivityTimerFire ==
  /\ activityTimer # {} /\ fuel > 0
  /\ fuel' = fuel - 1
  /\ activityTimer' = {}
  /\ TimerRefresh("activityTimer", FALSE)
  /\ UNCHANGED <<initialized, closure, retryCount, authLoopDetected, processedEvents,
                 refreshTimer, retryTimers>>

\* A backoff retry timer fires (135, 174): refreshSession(true).
RetryTimerFire ==
  \E d \in BagToSet(retryTimers) :
   
    /\ retryTimers' = retryTimers (-) SetToBag({d})
    /\ authState' = [authState EXCEPT !.isRefreshing = TRUE]
    /\ tasks' = Add(tasks, Task("timer", "refresh", NULL, 0, TRUE))
    /\ last' = Step("retryTimer", "storeCall")
    /\ UNCHANGED <<initialized, closure, retryCount, authLoopDetected, processedEvents,
                   refreshTimer, activityTimer, fuel>>

\* supabase.auth.refreshSession() answers (107-183).  "invalid" is an error
\* whose message names a missing or invalid refresh token, "transient" any
\* other; the throw* answers are the same faults raised as exceptions.
RefreshReturn ==
  \E t \in BagToSet(tasks),
     res \in {"ok", "invalid", "transient", "throwInvalid", "throwTransient"} :
    /\ t.pc = "refresh"
    /\ Fault(res # "ok")
    /\ CASE res = "ok" ->
              /\ retryCount' = 0
              /\ authState' = [authState EXCEPT !.isRefreshing = FALSE]
              /\ tasks' = IF t.root = "fetch"
                          THEN Add(Remove(tasks, t), [t EXCEPT !.pc = "profiles", !.fr = t.fr + 1])
                          ELSE Remove(tasks, t)
              /\ UNCHANGED <<initialized, refreshTimer, activityTimer, retryTimers>>
         [] res \in {"invalid", "throwInvalid"} ->
              /\ retryCount' = 0
              /\ authState' = AfterFetch([Unauthenticated(authState) EXCEPT
                                            !.isRefreshing = FALSE], t, NULL)
              /\ initialized' = InitializedAfter(t)
              /\ tasks' = Remove(tasks, t)
              /\ UNCHANGED <<refreshTimer, activityTimer, retryTimers>>
         [] res \in {"transient", "throwTransient"} ->
              /\ retryCount' = retryCount + 1
              /\ IF retryScheduled(retryCount + 1)
                 THEN /\ retryTimers' = retryTimers (+) SetToBag({retryDelay(retryCount + 1)})
                      /\ authState' = AfterFetch([authState EXCEPT !.isRefreshing = FALSE],
                                                 t, NULL)
                      /\ initialized' = InitializedAfter(t)
                      /\ tasks' = Remove(tasks, t)
                      /\ UNCHANGED <<refreshTimer, activityTimer>>
                 ELSE \* await signOut(): its code up to the store call (597-607)
                      /\ authState' = [authState EXCEPT !.loading = TRUE]
                      /\ refreshTimer' = {}
                      /\ activityTimer' = {}
                      /\ tasks' = Add(Remove(tasks, t), [t EXCEPT !.pc = "signOut"])
                      /\ UNCHANGED <<initialized, retryTimers>>
    \* arg: the Session in the `data` that a successful store call returns
    /\ last' = StepOf("refreshReturn", Outcome(res),
                      IF res = "ok" THEN RenewedSession ELSE NoSession, retryCount)
    /\ UNCHANGED <<closure, authLoopDetected, processedEvents>>

(* ---------------------------------------------------------------------- *)
(* signOut (596-623)                                                       *)
(* ---------------------------------------------------------------------- *)
Baseline == [user |-> NULL, profile |-> NULL, session |-> NoSession,
             loading |-> FALSE, isRefreshing |-> FALSE]

\* signOut() called by a consumer, up to `await supabase.auth.signOut()`.
SignOutCall ==
  /\ fuel > 0
  /\ fuel' = fuel - 1
  /\ authState' = [authState EXCEPT !.loading = TRUE]
  /\ refreshTimer' = {}
  /\ activityTimer' = {}
  /\ tasks' = Add(tasks, Task("signOut", "signOut", NULL, 0, TRUE))
  /\ last' = Step("signOut", "storeCall")
  /\ UNCHANGED <<initialized, closure, retryCount, authLoopDetected, processedEvents,
                 retryTimers>>

\* The state signOut() leaves once the store's sign-out answered.
signOutResult(st, res) ==
  IF res = "ok" THEN Baseline ELSE [st EXCEPT !.loading = FALSE]

\* supabase.auth.signOut() answers; when signOut() was awaited by
\* refreshSession (140, 176) that call then finishes: counter reset, finally.
SignOutReturn ==
  \E t \in BagToSet(tasks), res \in {"ok", "error"} :
    /\ t.pc = "signOut"
    /\ Fault(res # "ok")
    /\ IF t.root = "signOut"
       THEN /\ authState' = signOutResult(authState, res)
            /\ UNCHANGED <<retryCount, initialized>>
       ELSE /\ retryCount' = 0
            /\ authState' = AfterFetch([signOutResult(authState, res) EXCEPT
                                          !.isRefreshing = FALSE], t, NULL)
            /\ initialized' = InitializedAfter(t)
    /\ tasks' = Remove(tasks, t)
    /\ last' = Step("signOutReturn", res)
    /\ UNCHANGED <<closure, authLoopDetected, processedEvents, refreshTimer,
                   activityTimer, retryTimers>>


(* ---------------------------------------------------------------------- *)
(* initializeAuth (257-339) and fetchProfile (187-217)                     *)
(* ---------------------------------------------------------------------- *)

\* authState after getSession() returned an error or threw (270-279, 328-337).
\* Faulty variant of initFailedState: loading is never cleared.
initFailedStillLoading(st) == Unauthenticated(st)

initFailedState(st) == [Unauthenticated(st) EXCEPT !.loading = FALSE]

\* authState after getSession() returned no session (284-289, 305-311).
noSessionState(st) ==
  [st EXCEPT !.user = NULL, !.session = NoSession, !.profile = NULL, !.loading = FALSE]

\* supabase.auth.getSession() answers the initializeAuth of the current
\* effect run.
GetSessionReturn ==
  \E t \in BagToSet(tasks), res \in {"ok", "error", "throw"},
     s \in {PersistedSession, NoSession} :
    /\ t.pc = "getSession" /\ t.mounted
    /\ res # "ok" => s = NoSession
    /\ Fault(res # "ok")
    /\ IF res # "ok"
       THEN /\ authState' = initFailedState(authState)
            /\ initialized' = TRUE
            /\ tasks' = Remove(tasks, t)
            /\ last' = Step("getSessionReturn", "error")
            /\ UNCHANGED refreshTimer
       ELSE IF s = NoSession
       THEN /\ authState' = noSessionState(authState)
            /\ initialized' = TRUE
            /\ tasks' = Remove(tasks, t)
            /\ last' = Step("getSessionReturn", "noSession")
            /\ UNCHANGED refreshTimer
       ELSE /\ authState' = [authState EXCEPT !.user = s.user, !.session = s]
            /\ refreshTimer' = setupTokenRefresh(s)
            /\ tasks' = Add(Remove(tasks, t), [t EXCEPT !.pc = "profiles", !.uid = s.user])
            /\ last' = Step("getSessionReturn", "session")
            /\ UNCHANGED initialized
    /\ UNCHANGED <<closure, retryCount, authLoopDetected, processedEvents, activityTimer,
                   retryTimers>>

\* fetchProfile retries through a forced renewal on a session error while
\* retryCount < 2.
profileRetry(fr) == fr < 2

\* The profiles query of fetchProfile(uid, fr) answers.  "sessionError" is
\* an error naming JWT/session (or PGRST301).
ProfileReturn ==
  \E t \in BagToSet(tasks), res \in {"ok", "sessionError", "otherError", "throw"} :
    /\ t.pc = "profiles"
    /\ Fault(res # "ok")
    /\ IF res = "sessionError" /\ profileRetry(t.fr)
       THEN \* refreshSession(true) up to its await
            /\ authState' = [authState EXCEPT !.isRefreshing = TRUE]
            /\ tasks' = Add(Remove(tasks, t), [t EXCEPT !.pc = "refresh"])
            /\ last' = Step("profileReturn", "refresh")
            /\ UNCHANGED initialized
       ELSE /\ authState' = AfterFetch(authState, t, IF res = "ok" THEN t.uid ELSE NULL)
            /\ initialized' = InitializedAfter(t)
            /\ tasks' = Remove(tasks, t)
            /\ last' = Step("profileReturn", IF res = "ok" THEN "profile" ELSE "null")
    /\ UNCHANGED <<closure, retryCount, authLoopDetected, processedEvents, refreshTimer,
                   activityTimer, retryTimers>>

(* ---------------------------------------------------------------------- *)
(* onAuthStateChange callback (344-532)                                    *)
(* ---------------------------------------------------------------------- *)
Events ==
  {<<"SIGNED_OUT", NoSession>>,
   <<"TOKEN_REFRESHED", NoSession>>,
   <<"TOKEN_REFRESHED", RenewedSession>>,
   <<"TOKEN_REFRESHED", OtherSession>>,
   <<"SIGNED_IN", PersistedSession>>,
   <<"SIGNED_IN", OtherSession>>,
   <<"INITIAL_SESSION", NoSession>>,
   <<"INITIAL_SESSION", PersistedSession>>}

\* The TOKEN_REFRESHED update of authState (398-416), applied to prev.
tokenRefreshedState(prev, session) ==
  IF prev.user = session.user
  THEN [prev EXCEPT !.session = session, !.isRefreshing = FALSE, !.loading = FALSE]
  ELSE [prev EXCEPT !.user = session.user, !.session = session,
                    !.isRefreshing = FALSE, !.loading = FALSE]

\* `authState.user?.id !== session.user.id` (422), read from the closure.
tokenRefreshedFetches(cl, session) == cl.user # session.user

\* `authState.user?.id === session.user.id && authState.profile &&
\* authState.session` (444), read from the closure.
signedInDuplicate(cl, session) ==
  cl.user = session.user /\ cl.profile # NULL /\ cl.session # NoSession

FetchTask(session) == Task("fetch", "profiles", session.user, 0, TRUE)

DeliverEvent(e) ==
    LET event == e[1]
        session == e[2]
        key == eventKey(event, session)
    IN
    /\ fuel > 0
    /\ fuel' = fuel - 1
    /\ IF key \in SeqToSet(processedEvents)
       THEN /\ last' = StepOf(event, "duplicate", session, 0)
            /\ UNCHANGED <<authState, initialized, processedEvents, refreshTimer,
                           activityTimer, tasks>>
       ELSE
       /\ processedEvents' = addProcessed(processedEvents, key)
       /\ IF event = "SIGNED_OUT" \/ (event = "TOKEN_REFRESHED" /\ session = NoSession)
          THEN /\ authState' = [Unauthenticated(authState) EXCEPT !.isRefreshing = FALSE]
               /\ refreshTimer' = {}
               /\ activityTimer' = {}
               /\ initialized' = TRUE
               /\ last' = StepOf(event, "signedOut", session, 0)
               /\ UNCHANGED tasks
          ELSE IF event = "TOKEN_REFRESHED"
          THEN /\ authState' = tokenRefreshedState(authState, session)
               /\ refreshTimer' = setupTokenRefresh(session)
               /\ IF tokenRefreshedFetches(closure, session)
                  THEN
                       /\ tasks' = Add(tasks, FetchTask(session))
                       /\ last' = StepOf(event, "fetch", session, 0)
                       /\ UNCHANGED initialized
                  ELSE /\ initialized' = TRUE
                       /\ last' = StepOf(event, "sessionOnly", session, 0)
                       /\ UNCHANGED tasks
               /\ UNCHANGED activityTimer
          ELSE IF event = "SIGNED_IN"
          THEN IF signedInDuplicate(closure, session)
               THEN /\ authState' = [authState EXCEPT !.session = session,
                                                       !.loading = FALSE,
                                                       !.isRefreshing = FALSE]
                    /\ refreshTimer' = setupTokenRefresh(session)
                    /\ initialized' = TRUE
                    /\ last' = StepOf(event, "sessionOnly", session, 0)
                    /\ UNCHANGED <<activityTimer, tasks>>
               ELSE
                    /\ activityTimer' = updateLastActivity
                    /\ authState' = [authState EXCEPT !.user = session.user,
                                                       !.session = session,
                                                       !.isRefreshing = FALSE]
                    /\ refreshTimer' = setupTokenRefresh(session)
                    /\ tasks' = Add(tasks, FetchTask(session))
                    /\ last' = StepOf(event, "fetch", session, 0)
                    /\ UNCHANGED initialized
          ELSE IF session # NoSession
          THEN
               /\ activityTimer' = updateLastActivity
               /\ authState' = [authState EXCEPT !.user = session.user,
                                                  !.session = session,
                                                  !.isRefreshing = FALSE]
               /\ refreshTimer' = setupTokenRefresh(session)
               /\ tasks' = Add(tasks, FetchTask(session))
               /\ last' = StepOf(event, "fetch", session, 0)
               /\ UNCHANGED initialized
          ELSE /\ authState' = [authState EXCEPT !.user = NULL, !.session = NoSession,
                                                  !.isRefreshing = FALSE,
                                                  !.profile = NULL, !.loading = FALSE]
               /\ refreshTimer' = {}
               /\ activityTimer' = {}
               /\ initialized' = TRUE
               /\ last' = StepOf(event, "signedOut", session, 0)
               /\ UNCHANGED tasks
    /\ UNCHANGED <<closure, retryCount, authLoopDetected, retryTimers>>

AuthEvent == \E e \in Events : DeliverEvent(e)

(* ---------------------------------------------------------------------- *)
(* Activity tracking and re-rendering                                      *)
(* ---------------------------------------------------------------------- *)

\* A tracked interaction passes the throttle: updateLastActivity() (80-93).
UserActivity ==
  /\ fuel > 0
  /\ fuel' = fuel - 1
  /\ activityTimer' = updateLastActivity
  /\ last' = Step("activity", "armed")
  /\ UNCHANGED <<authState, initialized, closure, retryCount, authLoopDetected,
                 processedEvents, refreshTimer, retryTimers, tasks>>

\* The suspended calls of the effect run that is torn down: isMounted is
\* false for them from now on.  An initializeAuth still waiting for
\* getSession does nothing more and is dropped; of the others only the
\* retry level matters, since what they fetch is discarded.
Unmounted(bag) ==
  LET kept == {t \in BagToSet(bag) : t.pc # "getSession"}
      off(t) == IF t.root = "fetch" THEN [t EXCEPT !.mounted = FALSE, !.uid = NULL] ELSE t
  IN  [u \in {off(t) : t \in kept} |->
         BagCardinality([t \in {x \in kept : off(x) = u} |-> bag[t]])]

RenderPending == closure.isRefreshing # authState.isRefreshing

\* React commits a render in which authState.isRefreshing differs from the
\* one the callbacks captured.  refreshSession (deps at 184), fetchProfile
\* (217) and setupTokenRefresh (251) are re-created, so the effect (deps at
\* 557) is cleaned up (542-556) and run again (254-540) with the new closure.
Render ==
  /\ RenderPending
  /\ closure' = [isRefreshing |-> authState.isRefreshing, user |-> authState.user,
                 profile |-> authState.profile, session |-> authState.session]
  /\ refreshTimer' = {}
  /\ activityTimer' = {}
  /\ tasks' = Add(Unmounted(tasks), Task("fetch", "getSession", NULL, 0, TRUE))
  /\ last' = Step("render", "effect")
  /\ UNCHANGED <<authState, initialized, retryCount, authLoopDetected, processedEvents,
                 retryTimers, fuel>>

(* ====================================================================== *)
(* Station Service-Credential Manager: class ServiceAuthClient of          *)
(* lib/service-auth.ts.  Time is counted in hours.                         *)
(* ====================================================================== *)

VARIABLES
  clock,               \* new Date(), in hours
  rows,                \* table service_sessions: the rows this instance inserted
  sessionData,         \* this.sessionData
  sessionToken,        \* this.sessionToken: the row id behind `service_<id>`, 0 for null
  serviceRefreshTimer, \* this.refreshTimer: the deadline of the pending timeout, if any
  calls,               \* bag of suspended async calls of the instance
  budget,              \* calls and store failures left in the run
  done                 \* the step taken last and what it returned

stationVars == <<clock, rows, sessionData, sessionToken, serviceRefreshTimer,
                 calls, budget, done>>


NoServiceSession == [id |-> 0, expires_at |-> 0, active |-> FALSE]

\* The station the instance was constructed for (32) and the name the
\* verification returns for it (64).
StationId == "STATION_CUTTING_01"

StationName == "Cutting"

\* The arguments of an operation, and the parameters of a store request.
Args(barcode, newStatus, notes) ==
  [barcode |-> barcode, newStatus |-> newStatus, notes |-> notes]

NoArgs == Args("", "", "")

NoRequest ==
  [piece_barcode |-> "", new_status |-> "", station_id_param |-> "",
   employee_name |-> <<>>, notes |-> <<>>]

\* A call: the operation the caller invoked, the request it awaits, the row
\* the request addresses, the expiry it carries, the initialize() calls
\* made, the arguments of the operation, the parameters of its request.
Call(root, pc, id, exp, inits) ==
  [root |-> root, pc |-> pc, id |-> id, exp |-> exp, inits |-> inits,
   args |-> NoArgs, sent |-> NoRequest, at |-> 0]

\* The step taken, the operation it belongs to, what it returned, the
\* initialize() calls of the operation so far, and the step before it.
Did(op, root, out, inits) ==
  [op |-> op, root |-> root, out |-> out, inits |-> inits,
   after |-> <<done.op, done.root, done.out>>]

Spend(failed) == IF failed THEN budget > 0 /\ budget' = budget - 1 ELSE UNCHANGED budget

\* Faulty variant of isValidSession: the expiry is not looked at.
isValidSessionIgnoringExpiry(data, token, now) ==
  /\ data # NoServiceSession
  /\ token # 0
  /\ data.active

\* isValidSession (240-249).
isValidSession(data, token, now) ==
  /\ data # NoServiceSession
  /\ token # 0
  /\ now < data.expires_at
  /\ data.active

\* `sessionExpiry.setHours(sessionExpiry.getHours() + 12)` (57-58, 109-110).
sessionExpiry(now) == now + SessionHours

\* Faulty variant of setupSessionRefresh: the timeout is set to the expiry.
setupSessionRefreshAtExpiry(now) == {now + SessionHours}

\* setupSessionRefresh (91-102): one timeout, 10 hours from now.
setupSessionRefresh(now) == {now + RefreshHours}

\* The row inserted at 60-71; last_activity is left to the store (0).
NewRow(exp) == [expires_at |-> exp, active |-> TRUE, last_activity |-> 0]

\* The error initialize() returns for each failure of its two requests.
authError(res) ==
  CASE res = "error" -> "Invalid station credentials or authentication failed"
    [] res = "denied" -> "data.error"
    [] OTHER -> "Authentication failed"

insertError(res) ==
  IF res = "error" THEN "Failed to create service session" ELSE "Authentication failed"

InitStation(n) ==
  /\ clock = 0
  /\ rows = <<>>
  /\ sessionData = NoServiceSession
  /\ sessionToken = 0
  /\ serviceRefreshTimer = {}
  /\ calls = EmptyBag
  /\ budget = n
  /\ done = [op |-> "new", root |-> "none", out |-> "none", inits |-> 0,
             after |-> <<"none", "none", "none">>]

\* initialize() up to its first await (35-45).
Initialize ==
  /\ budget > 0
  /\ budget' = budget - 1
  /\ calls' = Add(calls, Call("initialize", "authenticate", 0, 0, 1))
  /\ done' = Did("initialize", "initialize", "pending", 1)
  /\ UNCHANGED <<clock, rows, sessionData, sessionToken, serviceRefreshTimer>>

\* Faulty variant of InitializeFailed: the early return is missing and the
\* call goes on to insert the row.
InitializeFailedGoesOn(c, op, error) ==
  /\ calls' = Add(Remove(calls, c), [c EXCEPT !.pc = "insert"])
  /\ done' = Did(op, c.root, error, c.inits)
  /\ UNCHANGED <<rows, sessionData, sessionToken, serviceRefreshTimer>>

\* Faulty variant of InitializeFailed: the renewal timer is armed although
\* initialize() failed.
InitializeFailedArmsTimer(c, op, error) ==
  /\ calls' = Remove(calls, c)
  /\ done' = Did(op, c.root, error, c.inits)
  /\ serviceRefreshTimer' = setupSessionRefresh(clock)
  /\ UNCHANGED <<rows, sessionData, sessionToken>>

\* What a failed initialize() leads to in the operation that awaited it:
\* every caller ends there (126-127, 141-143, 186-189).
InitializeFailed(c, op, error) ==
  /\ calls' = Remove(calls, c)
  /\ done' = Did(op, c.root, error, c.inits)
  /\ UNCHANGED <<rows, sessionData, sessionToken, serviceRefreshTimer>>

\* The rpc authenticate_scanner_station answers (47-71).
AuthenticateReturn ==
  \E c \in BagToSet(calls) : \E res \in {"ok", "error", "denied", "nodata", "throw"} :
    /\ c.pc = "authenticate"
    /\ Spend(res # "ok")
    /\ IF res = "ok"
       THEN /\ calls' = Add(Remove(calls, c),
                            [c EXCEPT !.pc = "insert", !.exp = sessionExpiry(clock)])
            /\ done' = Did("authenticateReturn", c.root, "pending", c.inits)
            /\ UNCHANGED <<rows, sessionData, sessionToken, serviceRefreshTimer>>
       ELSE InitializeFailed(c, "authenticateReturn", authError(res))
    /\ UNCHANGED clock

\* Faulty variant of updateArgs: the note of the caller is dropped.
updateArgsDefaultNote(args, data) ==
  [piece_barcode |-> args.barcode,
   new_status |-> args.newStatus,
   station_id_param |-> IF data = NoServiceSession THEN "undefined" ELSE StationId,
   employee_name |-> <<"Scanner: ",
                       IF data = NoServiceSession THEN "undefined" ELSE StationName>>,
   notes |-> <<"Updated to ", args.newStatus, " via scanner">>]

\* The parameters of the rpc update_piece_status_via_scanner (149-155);
\* station_id and station_name are read from this.sessionData, the row as
\* inserted at 62-65.
updateArgs(args, data) ==
  [piece_barcode |-> args.barcode,
   new_status |-> args.newStatus,
   station_id_param |-> IF data = NoServiceSession THEN "undefined" ELSE StationId,
   employee_name |-> <<"Scanner: ",
                       IF data = NoServiceSession THEN "undefined" ELSE StationName>>,
   notes |-> IF args.notes # "" THEN <<args.notes>>
             ELSE <<"Updated to ", args.newStatus, " via scanner">>]

\* Where an operation goes on once the initialize() it awaited succeeded:
\* to its own store request (146-155, 192-206), or to its end.
AfterInitialize(c, data) ==
  CASE c.root = "updatePieceStatus" ->
         {[c EXCEPT !.pc = "update_piece_status", !.sent = updateArgs(c.args, data)]}
    [] c.root = "getPieceInfo" -> {[c EXCEPT !.pc = "pieces"]}
    [] OTHER -> {}

\* The insert into service_sessions answers (73-88).
InsertReturn ==
  \E c \in BagToSet(calls) : \E res \in {"ok", "error", "throw"} :
    /\ c.pc = "insert"
    /\ Spend(res # "ok")
    /\ IF res = "ok"
       THEN /\ rows' = Append(rows, NewRow(c.exp))
            /\ sessionData' = [id |-> Len(rows) + 1, expires_at |-> c.exp, active |-> TRUE]
            /\ sessionToken' = Len(rows) + 1
            /\ serviceRefreshTimer' = setupSessionRefresh(clock)
            /\ calls' = Remove(calls, c) (+) SetToBag(AfterInitialize(c, sessionData'))
            /\ done' = Did("insertReturn", c.root, "success", c.inits)
       ELSE InitializeFailed(c, "insertReturn", insertError(res))
    /\ UNCHANGED clock

\* The 10 hour timeout expires: refreshSession() up to its await (99-118).
ServiceTimerFire ==
  /\ serviceRefreshTimer # {}
  /\ \A d \in serviceRefreshTimer : d <= clock
  /\ serviceRefreshTimer' = {}
  /\ IF sessionData = NoServiceSession
     THEN /\ done' = Did("timer", "refreshSession", "noSession", 0)
          /\ UNCHANGED calls
     ELSE /\ calls' = Add(calls, [Call("refreshSession", "renew", sessionData.id,
                                       sessionExpiry(clock), 0) EXCEPT !.at = clock])
          /\ done' = Did("timer", "refreshSession", "pending", 0)
  /\ UNCHANGED <<clock, rows, sessionData, sessionToken, budget>>

\* Faulty variant of UpdateRow: the store drops the update.
UpdateRowDropped(table, id, field, value) == table

\* The store's update of a row: no row matches once the id is unknown.
UpdateRow(table, id, field, value) ==
  IF id \in DOMAIN table THEN [table EXCEPT ![id][field] = value] ELSE table

\* The update of expires_at / last_activity answers (120-130).
RenewReturn ==
  \E c \in BagToSet(calls) : \E res \in {"ok", "error", "throw"} :
    /\ c.pc = "renew"
    /\ Spend(res # "ok")
    /\ CASE res = "ok" ->
              /\ rows' = UpdateRow(UpdateRow(rows, c.id, "expires_at", c.exp),
                                   c.id, "last_activity", c.at)
              /\ serviceRefreshTimer' = setupSessionRefresh(clock)
              /\ calls' = Remove(calls, c)
              /\ done' = Did("renewReturn", c.root, "renewed", c.inits)
         [] res = "error" ->
              /\ calls' = Add(Remove(calls, c),
                              [c EXCEPT !.pc = "authenticate", !.inits = c.inits + 1])
              /\ done' = Did("renewReturn", c.root, "initialize", c.inits + 1)
              /\ UNCHANGED <<rows, serviceRefreshTimer>>
         [] OTHER ->
              /\ calls' = Remove(calls, c)
              /\ done' = Did("renewReturn", c.root, "caught", c.inits)
              /\ UNCHANGED <<rows, serviceRefreshTimer>>
    /\ UNCHANGED <<clock, sessionData, sessionToken>>

\* updatePieceStatus / getPieceInfo up to their first await (139-155,
\* 185-206): lazy re-authentication, else the operation's own request.
Operation(root, request, args) ==
  /\ budget > 0
  /\ budget' = budget - 1
  /\ IF isValidSession(sessionData, sessionToken, clock)
     THEN /\ calls' = Add(calls, [Call(root, request, 0, 0, 0) EXCEPT
                                    !.args = args,
                                    !.sent = IF root = "updatePieceStatus"
                                             THEN updateArgs(args, sessionData)
                                             ELSE NoRequest])
          /\ done' = Did(root, root, "request", 0)
     ELSE /\ calls' = Add(calls, [Call(root, "authenticate", 0, 0, 1) EXCEPT
                                    !.args = args])
          /\ done' = Did(root, root, "initialize", 1)
  /\ UNCHANGED <<clock, rows, sessionData, sessionToken, serviceRefreshTimer>>

\* The scans of a run: one barcode, one target status, with and without
\* a note.
Barcodes == {"GLS-20250101-000123-P001"}

Statuses == {"tempering"}

Notes == {"", "ok"}

UpdatePieceStatus ==
  \E barcode \in Barcodes, newStatus \in Statuses, notes \in Notes :
    Operation("updatePieceStatus", "update_piece_status", Args(barcode, newStatus, notes))

GetPieceInfo ==
  \E barcode \in Barcodes : Operation("getPieceInfo", "pieces", Args(barcode, "", ""))

\* The rpc update_piece_status_via_scanner answers (157-174).
UpdateReturn ==
  \E c \in BagToSet(calls) : \E res \in {"ok", "error", "rejected", "throw"} :
    /\ c.pc = "update_piece_status"
    /\ Spend(res # "ok")
    /\ IF res = "ok" /\ sessionData # NoServiceSession
       THEN /\ calls' = Add(Remove(calls, c),
                            [c EXCEPT !.pc = "last_activity", !.id = sessionData.id,
                                      !.at = clock])
            /\ done' = Did("updateReturn", c.root, "pending", c.inits)
       ELSE /\ calls' = Remove(calls, c)
            /\ done' = Did("updateReturn", c.root,
                           CASE res = "ok" -> "success"
                             [] res = "error" -> "error.message"
                             [] res = "rejected" -> "result.error"
                             [] OTHER -> "System error occurred",
                           c.inits)
    /\ UNCHANGED <<clock, rows, sessionData, sessionToken, serviceRefreshTimer>>

\* The update of last_activity answers (170-180): its result is not read,
\* an exception lands in the catch block of the operation.
TouchReturn ==
  \E c \in BagToSet(calls) : \E res \in {"ok", "error", "throw"} :
    /\ c.pc = "last_activity"
    /\ Spend(res # "ok")
    /\ rows' = IF res = "ok" THEN UpdateRow(rows, c.id, "last_activity", c.at) ELSE rows
    /\ calls' = Remove(calls, c)
    /\ done' = Did("touchReturn", c.root,
                   IF res = "throw" THEN "System error occurred" ELSE "success", c.inits)
    /\ UNCHANGED <<clock, sessionData, sessionToken, serviceRefreshTimer>>

\* The select on pieces answers (208-216).
PiecesReturn ==
  \E c \in BagToSet(calls) : \E res \in {"ok", "error", "throw"} :
    /\ c.pc = "pieces"
    /\ Spend(res # "ok")
    /\ calls' = Remove(calls, c)
    /\ done' = Did("piecesReturn", c.root,
                   CASE res = "ok" -> "success"
                     [] res = "error" -> "Piece not found"
                     [] OTHER -> "System error occurred",
                   c.inits)
    /\ UNCHANGED <<clock, rows, sessionData, sessionToken, serviceRefreshTimer>>

\* cleanup() up to its await (257-268), or to its end when there is no
\* local session (274-275).
Cleanup ==
  /\ budget > 0
  /\ budget' = budget - 1
  /\ serviceRefreshTimer' = {}
  /\ IF sessionData # NoServiceSession
     THEN /\ calls' = Add(calls, Call("cleanup", "deactivate", sessionData.id, 0, 0))
          /\ done' = Did("cleanup", "cleanup", "pending", 0)
          /\ UNCHANGED <<sessionData, sessionToken>>
     ELSE /\ sessionToken' = 0
          /\ sessionData' = NoServiceSession
          /\ done' = Did("cleanup", "cleanup", "done", 0)
          /\ UNCHANGED calls
  /\ UNCHANGED <<clock, rows>>

\* The update of active answers; cleanup() ends (269-276).
DeactivateReturn ==
  \E c \in BagToSet(calls) : \E res \in {"ok", "error", "throw"} :
    /\ c.pc = "deactivate"
    /\ Spend(res # "ok")
    /\ rows' = IF res = "ok" THEN UpdateRow(rows, c.id, "active", FALSE) ELSE rows
    /\ sessionToken' = 0
    /\ sessionData' = NoServiceSession
    /\ calls' = Remove(calls, c)
    /\ done' = Did("deactivateReturn", c.root, res, c.inits)
    /\ UNCHANGED <<clock, serviceRefreshTimer>>

\* Time passes: the clock is read again.  A timeout that is due expires
\* first, and a store request is answered within seconds.
Tick ==
  /\ clock < MaxClock
  /\ calls = EmptyBag
  /\ \A d \in serviceRefreshTimer : clock < d
  /\ clock' = clock + TickHours
  /\ done' = Did("tick", "none", "none", 0)
  /\ UNCHANGED <<rows, sessionData, sessionToken, serviceRefreshTimer, calls, budget>>

(* ====================================================================== *)
(* The loop-detection effect of useAuth (44-77).  Time is counted in      *)
(* milliseconds.                                                           *)
(* ====================================================================== *)

VARIABLES
  loadingStartRef,  \* loadingStartRef.current: the instant stored, none for null
  loopDeps,         \* the dependency values the effect last ran with
  loopClock,        \* Date.now()
  hardReset         \* none | signOutLocal (storage cleared, local sign-out issued) | redirected

loopVars == <<loadingStartRef, loopDeps, loopClock, hardReset>>

\* The values of the dependency list at 77; supabase.auth is the same
\* object in every render.
LoopDepsNow == [loading |-> authState.loading, authLoopDetected |-> authLoopDetected]

\* The hook has mounted and the effect has run once, with loading = true.
InitLoop ==
  /\ loadingStartRef = {0}
  /\ loopDeps = [loading |-> TRUE, authLoopDetected |-> FALSE]
  /\ loopClock = 0
  /\ hardReset = "none"

\* React runs the effect after a render in which a dependency changed.
LoopEffectPending == loopDeps # LoopDepsNow

\* `loadingTime > 10000` (57-59).
loopDetected(start, now) == now - start > LoopThresholdMs

\* One run of the effect (53-76).
LoopEffect ==
  /\ LoopEffectPending
  /\ loopDeps' = LoopDepsNow
  /\ IF authState.loading /\ ~authLoopDetected
     THEN IF loadingStartRef = {}
          THEN /\ loadingStartRef' = {loopClock}
               /\ last' = Step("loopEffect", "started")
               /\ UNCHANGED <<authLoopDetected, hardReset>>
          ELSE IF \E start \in loadingStartRef : loopDetected(start, loopClock)
          THEN /\ authLoopDetected' = TRUE
               /\ hardReset' = "signOutLocal"
               /\ last' = Step("loopEffect", "detected")
               /\ UNCHANGED loadingStartRef
          ELSE /\ last' = Step("loopEffect", "waiting")
               /\ UNCHANGED <<loadingStartRef, authLoopDetected, hardReset>>
     ELSE /\ loadingStartRef' = IF authState.loading THEN loadingStartRef ELSE {}
          /\ last' = Step("loopEffect", "reset")
          /\ UNCHANGED <<authLoopDetected, hardReset>>
  /\ UNCHANGED <<authState, initialized, closure, retryCount, processedEvents,
                 refreshTimer, activityTimer, retryTimers, tasks, fuel, loopClock>>

\* Time passes: Date.now() is read again.  A pending effect runs first;
\* signOut({scope: 'local'}) has resolved by then and its then-callback has
\* set window.location.href (68-71).
LoopTick ==
  /\ ~LoopEffectPending
  /\ loopClock < MaxLoopClock
  /\ hardReset # "redirected"
  /\ loopClock' = loopClock + LoopTickMs
  /\ hardReset' = IF hardReset = "signOutLocal" THEN "redirected" ELSE hardReset
  /\ UNCHANGED <<loadingStartRef, loopDeps>>
  /\ UNCHANGED authVars

\* ---------------------------------------------------------------------
\* AuthGuard (components/AuthGuard.tsx)
\* ---------------------------------------------------------------------

VARIABLES
  hook,             \* what useAuth() returns: user, profile, loading, isRefreshing (18)
  requiredRole,     \* the prop (14), NULL when absent
  guard,            \* the component's useState values (20-26)
  screen,           \* what the latest render returned
  rendered,         \* the values the latest render read, {} before the first
  effectDeps,       \* the dependency values the effects last ran with, {} before the first
  guardTimers,      \* deadlines of the two timers of 51-60, 0 = not armed
  retryTicks,       \* pending 2 s timers of 96-98
  guardClock,       \* milliseconds since mount
  busySince,        \* history: when loading || isRefreshing last became true, {} when idle
  pushed,           \* history: the last router.push target
  guardFuel         \* stimuli from outside still to come

guardVars == <<hook, requiredRole, guard, screen, rendered, effectDeps, guardTimers,
               retryTicks, guardClock, busySince, pushed, guardFuel>>

Roles == {"viewer", "operator", "admin"}

\* The profiles rows of a run, as far as the guard reads them (105, 116).
Profiles ==
  {[role |-> "admin", active |-> TRUE], [role |-> "viewer", active |-> TRUE],
   [role |-> "admin", active |-> FALSE]}

\* The requiredRole props of a run; NULL when the prop is absent.
RequiredRoles == {NULL, "operator"}

\* `profile: null`.
NoProfile == [role |-> NULL, active |-> FALSE]

HookValues ==
  [user : {NULL, "user-a"}, profile : {NoProfile} \cup Profiles,
   loading : BOOLEAN, isRefreshing : BOOLEAN]

\* `const roleHierarchy = { viewer: 1, operator: 2, admin: 3 }` (104).
roleHierarchy(role) ==
  CASE role = "viewer" -> 1
    [] role = "operator" -> 2
    [] role = "admin" -> 3

NoTimers == [timeout |-> 0, emergency |-> 0]

Screen(kind, forceReload, trouble) ==
  [kind |-> kind, forceReload |-> forceReload, trouble |-> trouble]

\* The useState initial values (20-26); useAuth starts with loading = true.
InitGuard(n, roles) ==
  /\ hook = [user |-> NULL, profile |-> NoProfile, loading |-> TRUE, isRefreshing |-> FALSE]
  /\ requiredRole \in roles
  /\ guard = [shouldRender |-> FALSE, redirecting |-> FALSE, retryCount |-> 0,
              showRetry |-> FALSE, isOnline |-> TRUE, loadingTimeout |-> FALSE,
              showEmergencyReset |-> FALSE]
  /\ screen = Screen("unmounted", FALSE, FALSE)
  /\ rendered = {}
  /\ effectDeps = {}
  /\ guardTimers = NoTimers
  /\ retryTicks = 0
  /\ guardClock = 0
  /\ busySince = {0}
  /\ pushed = "none"
  /\ guardFuel = n

Busy(h) == h.loading \/ h.isRefreshing

\* The return statements of the component body (155-291).
render(h, g) ==
  IF ~g.isOnline THEN Screen("offline", FALSE, FALSE)
  ELSE IF g.showRetry THEN Screen("retry", FALSE, FALSE)
  ELSE IF h.loading \/ h.user = NULL \/ h.profile = NoProfile \/ g.redirecting \/ h.isRefreshing
  THEN Screen("loading",
              h.isRefreshing /\ g.loadingTimeout,
              ~(h.loading /\ g.retryCount > 2) /\ g.loadingTimeout)
  ELSE IF ~g.shouldRender THEN Screen("null", FALSE, FALSE)
  ELSE IF g.showEmergencyReset THEN Screen("emergency", FALSE, FALSE)
  ELSE Screen("children", FALSE, FALSE)

RenderInputs == [hook |-> hook, guard |-> guard]

GuardRenderPending == screen.kind # "left" /\ rendered # {RenderInputs}

\* React renders the component after a state change.
GuardRender ==
  /\ GuardRenderPending
  /\ screen' = render(hook, guard)
  /\ rendered' = {RenderInputs}
  /\ UNCHANGED <<hook, requiredRole, guard, effectDeps, guardTimers, retryTicks,
                 guardClock, busySince, pushed, guardFuel>>

\* The dependency lists of 69 and 126; router and requiredRole do not change.
TimeoutDeps == [loading |-> hook.loading, isRefreshing |-> hook.isRefreshing]

AuthorizationDeps ==
  [user |-> hook.user, profile |-> hook.profile, loading |-> hook.loading,
   isRefreshing |-> hook.isRefreshing, retryCount |-> guard.retryCount]

DepsNow == [timeout |-> TimeoutDeps, authorization |-> AuthorizationDeps]

GuardEffectsPending ==
  screen.kind # "left" /\ ~GuardRenderPending /\ effectDeps # {DepsNow}

\* The effect of 49-69: its cleanup clears both timers, then it arms them
\* again or drops the timeout flag.
timeoutEffect(g, h, now) ==
  IF Busy(h)
  THEN [guard |-> g, timers |-> [timeout |-> now + LoadingTimeoutMs,
                                 emergency |-> now + EmergencyTimeoutMs]]
  ELSE [guard |-> [g EXCEPT !.loadingTimeout = FALSE], timers |-> NoTimers]

\* The verdict of the effect of 71-126.
authorization(h, g, req) ==
  IF Busy(h) THEN "busy"
  ELSE IF h.user = NULL
  THEN IF g.retryCount > 0 THEN "showRetry" ELSE "login"
  ELSE IF h.profile = NoProfile
  THEN IF g.retryCount >= ProfileRetries THEN "showRetry" ELSE "retryLater"
  ELSE IF req # NULL /\ roleHierarchy(h.profile.role) < roleHierarchy(req)
  THEN "dashboard"
  ELSE IF ~h.profile.active THEN "login"
  ELSE "passed"

\* The state updates that go with each verdict.
authorizationEffect(g, verdict) ==
  CASE verdict = "showRetry" -> [g EXCEPT !.showRetry = TRUE]
    [] verdict \in {"login", "dashboard"} -> [g EXCEPT !.redirecting = TRUE]
    [] verdict = "passed" ->
         [g EXCEPT !.shouldRender = TRUE, !.showRetry = FALSE, !.retryCount = 0]
    [] OTHER -> g

\* After a render React runs the effects whose dependencies changed, in the
\* order of their declaration.
GuardEffects ==
  /\ GuardEffectsPending
  /\ LET timeoutRuns == \A d \in effectDeps : d.timeout # TimeoutDeps
         authorizationRuns == \A d \in effectDeps : d.authorization # AuthorizationDeps
         t == IF timeoutRuns THEN timeoutEffect(guard, hook, guardClock)
              ELSE [guard |-> guard, timers |-> guardTimers]
         verdict == IF authorizationRuns THEN authorization(hook, t.guard, requiredRole)
                    ELSE "none"
     IN /\ guard' = authorizationEffect(t.guard, verdict)
        /\ guardTimers' = t.timers
        /\ retryTicks' = IF verdict = "retryLater" THEN retryTicks + 1 ELSE retryTicks
        /\ pushed' = CASE verdict = "login" -> "/auth/login"
                       [] verdict = "dashboard" -> "/dashboard"
                       [] OTHER -> pushed
  /\ effectDeps' = {DepsNow}
  /\ UNCHANGED <<hook, requiredRole, screen, rendered, guardClock, busySince, guardFuel>>

GuardSettled == screen.kind # "left" /\ ~GuardRenderPending /\ ~GuardEffectsPending

busyClock(h, since, now) == IF ~Busy(h) THEN {} ELSE IF since = {} THEN {now} ELSE since

\* A setAuthState of the hook reaches the guard.
HookUpdate ==
  /\ GuardSettled
  /\ guardFuel > 0
  /\ \E h \in HookValues :
       /\ h # hook
       /\ hook' = h
       /\ busySince' = busyClock(h, busySince, guardClock)
  /\ guardFuel' = guardFuel - 1
  /\ UNCHANGED <<requiredRole, guard, screen, rendered, effectDeps, guardTimers,
                 retryTicks, guardClock, pushed>>

TimerDue(deadline) == deadline # 0 /\ guardClock >= deadline

\* The callback of 51-54.
LoadingTimeoutFire ==
  /\ GuardSettled
  /\ TimerDue(guardTimers.timeout)
  /\ guard' = [guard EXCEPT !.loadingTimeout = TRUE]
  /\ guardTimers' = [guardTimers EXCEPT !.timeout = 0]
  /\ UNCHANGED <<hook, requiredRole, screen, rendered, effectDeps, retryTicks,
                 guardClock, busySince, pushed, guardFuel>>

\* The callback of 57-60.
EmergencyTimeoutFire ==
  /\ GuardSettled
  /\ TimerDue(guardTimers.emergency)
  /\ guard' = [guard EXCEPT !.showEmergencyReset = TRUE]
  /\ guardTimers' = [guardTimers EXCEPT !.emergency = 0]
  /\ UNCHANGED <<hook, requiredRole, screen, rendered, effectDeps, retryTicks,
                 guardClock, busySince, pushed, guardFuel>>

\* The callback of 96-98, two seconds after the effect asked for it.
RetryTick ==
  /\ GuardSettled
  /\ retryTicks > 0
  /\ retryTicks' = retryTicks - 1
  /\ guard' = [guard EXCEPT !.retryCount = @ + 1]
  /\ UNCHANGED <<hook, requiredRole, screen, rendered, effectDeps, guardTimers,
                 guardClock, busySince, pushed, guardFuel>>

\* handleRetry (128-140); the hook's refreshSession is the forced one and
\* marks the renewal before it awaits the store.
handleRetry(g) == [g EXCEPT !.showRetry = FALSE, !.retryCount = 0, !.loadingTimeout = FALSE]

RetryClick ==
  /\ GuardSettled
  /\ guardFuel > 0
  /\ screen.kind = "retry"
  /\ guard' = handleRetry(guard)
  /\ hook' = [hook EXCEPT !.isRefreshing = TRUE]
  /\ busySince' = busyClock(hook', busySince, guardClock)
  /\ guardFuel' = guardFuel - 1
  /\ UNCHANGED <<requiredRole, screen, rendered, effectDeps, guardTimers, retryTicks,
                 guardClock, pushed>>

\* The button of 266-272.
TroubleClick ==
  /\ GuardSettled
  /\ guardFuel > 0
  /\ screen.trouble
  /\ guard' = [guard EXCEPT !.showRetry = TRUE]
  /\ guardFuel' = guardFuel - 1
  /\ UNCHANGED <<hook, requiredRole, screen, rendered, effectDeps, guardTimers,
                 retryTicks, guardClock, busySince, pushed>>

\* The window's offline and online events (30-36).
Offline ==
  /\ GuardSettled
  /\ guardFuel > 0
  /\ guard.isOnline
  /\ guard' = [guard EXCEPT !.isOnline = FALSE]
  /\ guardFuel' = guardFuel - 1
  /\ UNCHANGED <<hook, requiredRole, screen, rendered, effectDeps, guardTimers,
                 retryTicks, guardClock, busySince, pushed>>

Online ==
  /\ GuardSettled
  /\ ~guard.isOnline
  /\ guard' = IF guard.showRetry THEN [handleRetry(guard) EXCEPT !.isOnline = TRUE]
              ELSE [guard EXCEPT !.isOnline = TRUE]
  /\ hook' = IF guard.showRetry THEN [hook EXCEPT !.isRefreshing = TRUE] ELSE hook
  /\ busySince' = busyClock(hook', busySince, guardClock)
  /\ UNCHANGED <<requiredRole, screen, rendered, effectDeps, guardTimers, retryTicks,
                 guardClock, pushed, guardFuel>>

\* handleForceReload and handleSignOut (142-152) and the reset of the
\* emergency screen leave the page.
LeavePage ==
  /\ GuardSettled
  /\ guardFuel > 0
  /\ screen.kind \in {"retry", "emergency"} \/ screen.forceReload
  /\ screen' = Screen("left", FALSE, FALSE)
  /\ guardTimers' = NoTimers
  /\ retryTicks' = 0
  /\ guardFuel' = guardFuel - 1
  /\ UNCHANGED <<hook, requiredRole, guard, rendered, effectDeps, guardClock,
                 busySince, pushed>>

\* Time passes; timers that are due have fired before.
GuardTick ==
  /\ GuardSettled
  /\ guardClock < MaxGuardClock
  /\ ~TimerDue(guardTimers.timeout)
  /\ ~TimerDue(guardTimers.emergency)
  /\ retryTicks = 0
  /\ guardClock' = guardClock + GuardTickMs
  /\ UNCHANGED <<hook, requiredRole, guard, screen, rendered, effectDeps, guardTimers,
                 retryTicks, busySince, pushed, guardFuel>>

\* ---------------------------------------------------------------------
\* DimensionInput (components/ui/dimension-input.tsx).  A string is the
\* sequence of its characters.
\* ---------------------------------------------------------------------

VARIABLES
  value,            \* the prop: inches and fraction (9)
  inputValue,       \* useState('') (147)
  isFocused,        \* useState(false) (148)
  typed             \* history: the handler that ran last

dimVars == <<value, inputValue, isFocused, typed>>

\* VALID_FRACTIONS (17-20), in the order of the source.
VALID_FRACTIONS ==
  << <<"0">>, <<"1", "/", "1", "6">>, <<"1", "/", "8">>, <<"3", "/", "1", "6">>,
     <<"1", "/", "4">>, <<"5", "/", "1", "6">>, <<"3", "/", "8">>, <<"7", "/", "1", "6">>,
     <<"1", "/", "2">>, <<"9", "/", "1", "6">>, <<"5", "/", "8">>,
     <<"1", "1", "/", "1", "6">>, <<"3", "/", "4">>, <<"1", "3", "/", "1", "6">>,
     <<"7", "/", "8">>, <<"1", "5", "/", "1", "6">> >>

ValidFractions == {VALID_FRACTIONS[j] : j \in 1..Len(VALID_FRACTIONS)}

Zero == <<"0">>

DigitChars == <<"0", "1", "2", "3", "4", "5", "6", "7", "8", "9">>

IsDigit(c) == \E d \in 1..Len(DigitChars) : DigitChars[d] = c

digitValue(c) == (CHOOSE d \in 1..Len(DigitChars) : DigitChars[d] = c) - 1

\* Number.prototype.toString of a whole number below 10^21.
RECURSIVE toString(_)
toString(n) ==
  IF n < 10 THEN <<DigitChars[n + 1]>>
  ELSE toString(n \div 10) \o <<DigitChars[(n % 10) + 1]>>

\* parseInt: the value of the leading run of digits.
RECURSIVE parseDigits(_, _)
parseDigits(s, acc) ==
  IF s = <<>> \/ ~IsDigit(Head(s)) THEN acc
  ELSE parseDigits(Tail(s), acc * 10 + digitValue(Head(s)))

parseInt(s) == parseDigits(s, 0)

\* String.prototype.trim.
RECURSIVE trimStart(_)
trimStart(s) == IF s # <<>> /\ Head(s) = " " THEN trimStart(Tail(s)) ELSE s

RECURSIVE trimEnd(_)
trimEnd(s) ==
  IF s # <<>> /\ s[Len(s)] = " " THEN trimEnd(SubSeq(s, 1, Len(s) - 1)) ELSE s

trim(s) == trimEnd(trimStart(s))

\* \d+
IsDigits(s) == s # <<>> /\ \A k \in 1..Len(s) : IsDigit(s[k])

\* \s+
IsSpaces(s) == s # <<>> /\ \A k \in 1..Len(s) : s[k] = " "

\* Where s splits into digits, the separator and digits again.
SplitsAt(s, sep) ==
  {k \in 1..Len(s) : /\ s[k] = sep
                     /\ IsDigits(SubSeq(s, 1, k - 1))
                     /\ IsDigits(SubSeq(s, k + 1, Len(s)))}

\* /^(\d+)\.(\d+)$/ (101) and /^(\d+\/\d+)$/ (116).
decimalMatch(s) == SplitsAt(s, ".")

fractionMatch(s) == SplitsAt(s, "/") # {}

\* /^\d+$/ (110).
wholeMatch(s) == IsDigits(s)

\* /^(\d+(?:\.\d+)?)\s+(\d+\/\d+)$/ (92): the ends of the first group and
\* of the white space.
spaceMatch(s) ==
  {m \in (1..Len(s)) \X (1..Len(s)) :
     /\ m[1] < m[2]
     /\ LET first == SubSeq(s, 1, m[1])
        IN  wholeMatch(first) \/ decimalMatch(first) # {}
     /\ IsSpaces(SubSeq(s, m[1] + 1, m[2]))
     /\ fractionMatch(SubSeq(s, m[2] + 1, Len(s)))}

RECURSIVE pow10(_)
pow10(k) == IF k = 0 THEN 1 ELSE 10 * pow10(k - 1)

Abs(x) == IF x < 0 THEN 0 - x ELSE x

\* decimalToFraction (46-79) of 0.<digits>: the entry of the list closest
\* to it, the first one among equals.  Entry j of the list is (j - 1)/16.
decimalToFraction(digits) ==
  LET num == parseInt(digits)
      den == pow10(Len(digits))
      diff(j) == Abs(16 * num - (j - 1) * den)
      closest == CHOOSE j \in 1..Len(VALID_FRACTIONS) :
                   \A k \in 1..Len(VALID_FRACTIONS) :
                     diff(j) < diff(k) \/ (diff(j) = diff(k) /\ j <= k)
  IN  VALID_FRACTIONS[closest]

Dimension(inches, fraction) == [inches |-> inches, fraction |-> fraction]

\* Faulty variant of formatDimension: no blank between inches and fraction.
formatDimensionGlued(inches, fraction) ==
  IF inches = 0 /\ fraction = Zero THEN <<>>
  ELSE IF fraction = Zero THEN toString(inches)
  ELSE IF inches = 0 THEN fraction
  ELSE toString(inches) \o fraction

\* formatDimension (126-137).
formatDimension(inches, fraction) ==
  IF inches = 0 /\ fraction = Zero THEN <<>>
  ELSE IF fraction = Zero THEN toString(inches)
  ELSE IF inches = 0 THEN fraction
  ELSE toString(inches) \o <<" ">> \o fraction

\* parseInput (82-123).
parseInput(input) ==
  LET trimmed == trim(input)
      spaced == {m \in spaceMatch(trimmed) :
                   SubSeq(trimmed, m[2] + 1, Len(trimmed)) \in ValidFractions}
  IN  IF trimmed = <<>> THEN Dimension(0, Zero)
      ELSE IF spaced # {}
      THEN LET m == CHOOSE x \in spaced : TRUE
           IN  Dimension(parseInt(SubSeq(trimmed, 1, m[1])),
                         SubSeq(trimmed, m[2] + 1, Len(trimmed)))
      ELSE IF decimalMatch(trimmed) # {}
      THEN LET k == CHOOSE x \in decimalMatch(trimmed) : TRUE
           IN  Dimension(parseInt(SubSeq(trimmed, 1, k - 1)),
                         decimalToFraction(SubSeq(trimmed, k + 1, Len(trimmed))))
      ELSE IF wholeMatch(trimmed) THEN Dimension(parseInt(trimmed), Zero)
      ELSE IF fractionMatch(trimmed) /\ trimmed \in ValidFractions
      THEN Dimension(0, trimmed)
      ELSE Dimension(0, Zero)

\* The dimensions a run starts from.
Dimensions == {Dimension(i, f) : i \in 0..MaxInches, f \in ValidFractions}

\* What is typed into the field in a run: the inputs of the tests (203-226)
\* and some the parser rejects or rounds.
TypedInputs ==
  { <<"8", "0", " ", "1", "/", "1", "6">>,
    <<"8", "0", ".", "0", "6", "2", "5">>,
    <<"8", "0">>,
    <<"1", "/", "2">>,
    <<" ", "7", " ", " ", "3", "/", "8", " ">>,
    <<"8", "0", " ", "1", "/", "3">>,
    <<"8", "0", ".", "5", " ", "1", "/", "4">>,
    <<"8", "0", "1", "/", "1", "6">>,
    <<>> }

\* The component has mounted with the prop it was given.
InitDimension(values) ==
  /\ value \in values
  /\ inputValue = <<>>
  /\ isFocused = FALSE
  /\ typed = "mount"

\* The effect of 151-155; the parent keeps what onChange hands it.
SyncEffect ==
  /\ ~isFocused
  /\ inputValue # formatDimension(value.inches, value.fraction)
  /\ inputValue' = formatDimension(value.inches, value.fraction)
  /\ typed' = "effect"
  /\ UNCHANGED <<value, isFocused>>

\* handleFocus (176-178).
HandleFocus ==
  /\ ~isFocused
  /\ isFocused' = TRUE
  /\ typed' = "focus"
  /\ UNCHANGED <<value, inputValue>>

\* handleInputChange (157-166).
HandleInputChange ==
  /\ isFocused
  /\ \E newValue \in TypedInputs :
       /\ newValue # inputValue
       /\ inputValue' = newValue
       /\ value' = parseInput(newValue)
  /\ typed' = "change"
  /\ UNCHANGED isFocused

\* handleBlur (168-174).
HandleBlur ==
  /\ isFocused
  /\ isFocused' = FALSE
  /\ LET parsed == parseInput(inputValue)
     IN  /\ inputValue' = formatDimension(parsed.inches, parsed.fraction)
         /\ value' = parsed
  /\ typed' = "blur"

(* ====================================================================== *)
(* Timer lines: the setTimeout handles kept in refreshTimeoutRef and       *)
(* activityTimeoutRef (useAuth.ts 39-40) and in ServiceAuthManager's       *)
(* refreshTimer (service-auth.ts 30), with the runtime's table of pending  *)
(* timeouts.                                                               *)
(* ====================================================================== *)
VARIABLES
  nowMs,            \* Date.now()
  timeouts,         \* the runtime's pending timeouts: [id, line, delay, due]
  handles,          \* the handle each line holds; NoHandle when none
  nextId,           \* the handle the next setTimeout returns
  armed,            \* history: the last call on a timer line
  renewals,         \* refreshSession() calls made by timer callbacks
  timerFuel

timerVars == <<nowMs, timeouts, handles, nextId, armed, renewals, timerFuel>>

TimerLines == {"refreshTimeoutRef", "activityTimeoutRef", "refreshTimer"}

NoHandle == 0

\* Sessions handed to setupTokenRefresh: without expires_at, expired,
\* past the renewal deadline, within the last minute before it (at and
\* around the bounds of the short timer), and far from it.
TimerExpiries == {0, NowS - 100, NowS + 200, NowS + 308, NowS + 330, NowS + 360, NowS + 361, ExpA}

TimerSessions == {MkSession("u1", e) : e \in TimerExpiries}

TimerCall(op, session, now, cancelled) ==
  [op |-> op, session |-> session, now |-> now, cancelled |-> cancelled]

InitTimers(n) ==
  /\ nowMs = NowS * 1000
  /\ timeouts = {}
  /\ handles = [l \in TimerLines |-> NoHandle]
  /\ nextId = 1
  /\ armed = TimerCall("none", NoSession, NowS * 1000, FALSE)
  /\ renewals = 0
  /\ timerFuel = n

\* setTimeout(callback, delay) at time now, returning handle id.
setTimeout(table, id, line, delay, now) ==
  table \cup {[id |-> id, line |-> line, delay |-> delay, due |-> now + delay]}

\* Faulty variant of clearTimeout: the timeout stays pending.
clearTimeoutLeaky(table, id) == table

\* clearTimeout(id); a handle that fired or was cleared before is ignored.
clearTimeout(table, id) == {t \in table : t.id # id}

Pending(line) == {t \in timeouts : t.line = line}

\* Clear-then-arm on one line: `if (ref) clearTimeout(ref); ref = setTimeout(..)`.
Arm(line, delays, op, session) ==
  LET cleared == clearTimeout(timeouts, handles[line])
  IN  /\ timerFuel > 0
      /\ timerFuel' = timerFuel - 1
      /\ IF delays = {}
         THEN /\ timeouts' = cleared
              /\ UNCHANGED <<handles, nextId>>
         ELSE \E d \in delays :
              /\ timeouts' = setTimeout(cleared, nextId, line, d, nowMs)
              /\ handles' = [handles EXCEPT ![line] = nextId]
              /\ nextId' = nextId + 1
      /\ armed' = TimerCall(op, session, nowMs, cleared # timeouts)
      /\ UNCHANGED <<nowMs, renewals>>

\* setupTokenRefresh(session) (useAuth.ts 220-251).
SetupTokenRefresh ==
  \E session \in TimerSessions :
    Arm("refreshTimeoutRef",
        IF session.expires_at = 0 THEN {}
        ELSE timeUntilRefreshDelay(session.expires_at, nowMs),
        "setupTokenRefresh", session)

\* updateLastActivity() (useAuth.ts 80-93).
UpdateLastActivity ==
  Arm("activityTimeoutRef", updateLastActivity, "updateLastActivity", NoSession)

\* setupSessionRefresh() (service-auth.ts 91-102).
SetupSessionRefresh ==
  Arm("refreshTimer", {RefreshHours * 3600000}, "setupSessionRefresh", NoSession)

\* The two clearTimeout calls of signOut (600-605), of the sign-out events
\* (380-385, 512-517) and of the effect's clean-up (546-551): the refs keep
\* their handles.
ClearUserTimers ==
  /\ timerFuel > 0
  /\ timerFuel' = timerFuel - 1
  /\ timeouts' = clearTimeout(clearTimeout(timeouts, handles["refreshTimeoutRef"]),
                              handles["activityTimeoutRef"])
  /\ armed' = TimerCall("clearUserTimers", NoSession, nowMs, timeouts' # timeouts)
  /\ UNCHANGED <<nowMs, handles, nextId, renewals>>

\* cleanup() of the station manager (service-auth.ts 258-261).
CleanupTimer ==
  /\ timerFuel > 0
  /\ timerFuel' = timerFuel - 1
  /\ timeouts' = clearTimeout(timeouts, handles["refreshTimer"])
  /\ handles' = [handles EXCEPT !["refreshTimer"] = NoHandle]
  /\ armed' = TimerCall("cleanup", NoSession, nowMs, timeouts' # timeouts)
  /\ UNCHANGED <<nowMs, nextId, renewals>>

\* A pending timeout that is due runs its callback, which calls the
\* manager's refreshSession().
TimeoutFire ==
  \E t \in timeouts :
    /\ t.due <= nowMs
    /\ timeouts' = timeouts \ {t}
    /\ renewals' = renewals + 1
    /\ armed' = TimerCall("timeout", NoSession, nowMs, FALSE)
    /\ UNCHANGED <<nowMs, handles, nextId, timerFuel>>

TimerTick ==
  /\ nowMs + TimerTickMs <= MaxTimerClockMs
  /\ nowMs' = nowMs + TimerTickMs
  /\ armed' = TimerCall("tick", NoSession, nowMs + TimerTickMs, FALSE)
  /\ UNCHANGED <<timeouts, handles, nextId, renewals, timerFuel>>

(* ====================================================================== *)
(* throttle(updateLastActivity, 60000) (useAuth.ts 534-540, 646-664): the   *)
(* handler of the tracked interaction events.                               *)
(* ====================================================================== *)
VARIABLES
  thNow,            \* Date.now()
  timeoutId,        \* the trailing timeout: its due time, or empty when null
  lastExecTime,
  execTimes,        \* history: the times at which func was executed
  thFuel

throttleVars == <<thNow, timeoutId, lastExecTime, execTimes, thFuel>>

InitThrottle(n) ==
  /\ thNow = NowS * 1000
  /\ timeoutId = {}
  /\ lastExecTime = 0
  /\ execTimes = <<>>
  /\ thFuel = n

\* `currentTime - lastExecTime > delay` (653).
throttleOpen(currentTime, lastExec, delay) == currentTime - lastExec > delay

\* One tracked interaction event: the function throttle returned (650-663).
ThrottledCall ==
  /\ thFuel > 0
  /\ thFuel' = thFuel - 1
  /\ IF throttleOpen(thNow, lastExecTime, ThrottleDelayMs)
     THEN /\ execTimes' = Append(execTimes, thNow)
          /\ lastExecTime' = thNow
          /\ UNCHANGED timeoutId
     ELSE IF timeoutId = {}
     THEN /\ timeoutId' = {thNow + (ThrottleDelayMs - (thNow - lastExecTime))}
          /\ UNCHANGED <<execTimes, lastExecTime>>
     ELSE UNCHANGED <<timeoutId, execTimes, lastExecTime>>
  /\ UNCHANGED thNow

\* The trailing timeout runs (657-661), at its due time or later.
ThrottleTimeout ==
  /\ \E due \in timeoutId : due <= thNow
  /\ execTimes' = Append(execTimes, thNow)
  /\ lastExecTime' = thNow
  /\ timeoutId' = {}
  /\ UNCHANGED <<thNow, thFuel>>

ThrottleTick ==
  \E d \in {ShortTickMs, LongTickMs} :
    /\ thFuel > 0
    /\ thFuel' = thFuel - 1
    /\ thNow' = thNow + d
    /\ UNCHANGED <<timeoutId, lastExecTime, execTimes>>

(* ====================================================================== *)
(* ScannerPage (src/unnamed/part_006, app/scanner/page.tsx): handleScan    *)
(* and handleStatusUpdate.  A piece is named by its barcode; "" stands    *)
(* for the empty input, no status and no piece.                            *)
(* ====================================================================== *)
VARIABLES
  barcode,          \* the barcode input (98)
  selectedStatus,   \* (99)
  autoSubmit,       \* (105)
  currentPiece,     \* the piece displayed (103)
  pageLoading,      \* loading (101): the input and both buttons are disabled
  handler,          \* the handler in flight, with the state its render captured
  issued,           \* history: the status updates sent to the store
  scanned,          \* history: the last scan that was answered
  scanFuel

scanVars == <<barcode, selectedStatus, autoSubmit, currentPiece, pageLoading, handler,
              issued, scanned, scanFuel>>

ScanCodes == {"P001", "P002"}

ScanStatuses == {"cutting", "tempering"}

\* What the functions of one render see: the state of that render.
Captured(pc, root) ==
  [pc |-> pc, root |-> root, barcode |-> barcode, autoSubmit |-> autoSubmit,
   selectedStatus |-> selectedStatus, currentPiece |-> currentPiece]

Idle == [pc |-> "idle", root |-> "none", barcode |-> "", autoSubmit |-> FALSE,
         selectedStatus |-> "", currentPiece |-> ""]

StatusUpdate(piece, status) == [piece |-> piece, status |-> status]

InitScanner(n) ==
  /\ barcode = ""
  /\ selectedStatus = ""
  /\ autoSubmit = FALSE
  /\ currentPiece = ""
  /\ pageLoading = FALSE
  /\ handler = Idle
  /\ issued = <<>>
  /\ scanned = [barcode |-> "", found |-> FALSE]
  /\ scanFuel = n

\* The operator's inputs (549, 614, 737, 513).
TypeBarcode ==
  /\ scanFuel > 0 /\ ~pageLoading
  /\ \E b \in ScanCodes : b # barcode /\ barcode' = b
  /\ scanFuel' = scanFuel - 1
  /\ UNCHANGED <<selectedStatus, autoSubmit, currentPiece, pageLoading, handler, issued, scanned>>

SelectStatus ==
  /\ scanFuel > 0
  /\ \E st \in ScanStatuses : st # selectedStatus /\ selectedStatus' = st
  /\ scanFuel' = scanFuel - 1
  /\ UNCHANGED <<barcode, autoSubmit, currentPiece, pageLoading, handler, issued, scanned>>

SetAutoSubmit ==
  /\ scanFuel > 0
  /\ autoSubmit' = ~autoSubmit
  /\ scanFuel' = scanFuel - 1
  /\ UNCHANGED <<barcode, selectedStatus, currentPiece, pageLoading, handler, issued, scanned>>

\* handleScan up to `await findPiece(barcode.trim())` (228-235).
HandleScan ==
  /\ ~pageLoading
  /\ barcode # ""
  /\ pageLoading' = TRUE
  /\ handler' = Captured("findPiece", "scan")
  /\ UNCHANGED <<barcode, selectedStatus, autoSubmit, currentPiece, issued, scanned, scanFuel>>

\* handleStatusUpdate of the render r, up to its store request (276-304):
\* the piece and the status are the ones r captured.
handleStatusUpdate(r) ==
  IF r.currentPiece = "" \/ r.selectedStatus = "" THEN <<>>
  ELSE <<StatusUpdate(r.currentPiece, r.selectedStatus)>>

\* The finally block of handleScan (269-272).
ScanEnds ==
  /\ pageLoading' = FALSE
  /\ barcode' = ""
  /\ handler' = Idle

\* findPiece answers with the piece of the barcode or with null; it catches
\* its own exceptions (165-225, 236-261).
FindPieceReturn ==
  \E res \in {"piece", "none"} :
    /\ handler.pc = "findPiece"
    /\ IF res = "piece" THEN UNCHANGED scanFuel
       ELSE scanFuel > 0 /\ scanFuel' = scanFuel - 1
    /\ scanned' = [barcode |-> handler.barcode, found |-> res = "piece"]
    /\ IF res = "piece"
       THEN /\ currentPiece' = handler.barcode
            /\ IF handler.autoSubmit /\ handler.selectedStatus # "" /\ handleStatusUpdate(handler) # <<>>
               THEN /\ issued' = issued \o handleStatusUpdate(handler)
                    /\ handler' = [handler EXCEPT !.pc = "update"]
                    /\ UNCHANGED <<pageLoading, barcode>>
               ELSE /\ ScanEnds
                    /\ UNCHANGED issued
       ELSE /\ currentPiece' = ""
            /\ ScanEnds
            /\ UNCHANGED issued
    /\ UNCHANGED <<selectedStatus, autoSubmit>>

\* The Update Status button (637-638).
ClickUpdate ==
  /\ ~pageLoading
  /\ selectedStatus # ""
  /\ handleStatusUpdate(Captured("update", "click")) # <<>>
  /\ issued' = issued \o handleStatusUpdate(Captured("update", "click"))
  /\ handler' = Captured("update", "click")
  /\ pageLoading' = TRUE
  /\ UNCHANGED <<barcode, selectedStatus, autoSubmit, currentPiece, scanned, scanFuel>>

\* The status update answers (306-357); a scan that awaited it ends.
StatusUpdateReturn ==
  \E ok \in BOOLEAN :
    /\ handler.pc = "update"
    /\ IF ok THEN UNCHANGED scanFuel ELSE scanFuel > 0 /\ scanFuel' = scanFuel - 1
    /\ IF ok
       THEN selectedStatus' = "" /\ currentPiece' = ""
       ELSE UNCHANGED <<selectedStatus, currentPiece>>
    /\ pageLoading' = FALSE
    /\ handler' = Idle
    /\ barcode' = IF handler.root = "scan" THEN "" ELSE barcode
    /\ UNCHANGED <<autoSubmit, issued, scanned>>

\* ---------------------------------------------------------------------
\* History of signing out, kept beside the hook's state
\* ---------------------------------------------------------------------

VARIABLES
  signedOut         \* history: signOut() succeeded while a renewal was in flight
                    \* and nothing has signed in since

historyVars == <<signedOut>>

\* Nothing signed out yet, and no dimension field in use.
\* No timer line, no throttled handler and no scanner page in use.
TimersIdle == InitTimers(0) /\ InitThrottle(0) /\ InitScanner(0)

HistoryIdle == signedOut = FALSE /\ InitDimension({Dimension(0, Zero)}) /\ TimersIdle

vars == <<authVars, stationVars, loopVars, guardVars, historyVars, dimVars, timerVars, throttleVars, scanVars>>

\* What the steps of one component leave alone.
outsideAuth == <<stationVars, loopVars, guardVars, historyVars, dimVars, timerVars, throttleVars, scanVars>>

outsideStation == <<authVars, loopVars, guardVars, historyVars, dimVars, timerVars, throttleVars, scanVars>>

outsideGuard == <<authVars, stationVars, loopVars, historyVars, dimVars, timerVars, throttleVars, scanVars>>

outsideDimension == <<authVars, stationVars, loopVars, guardVars, historyVars, timerVars, throttleVars, scanVars>>

outsideTimers == <<authVars, stationVars, loopVars, guardVars, historyVars, dimVars, throttleVars, scanVars>>

outsideThrottle == <<authVars, stationVars, loopVars, guardVars, historyVars, dimVars, timerVars, scanVars>>

outsideScanner == <<authVars, stationVars, loopVars, guardVars, historyVars, dimVars, timerVars, throttleVars>>

NextStation ==
  \/ Initialize /\ UNCHANGED outsideStation
  \/ AuthenticateReturn /\ UNCHANGED outsideStation
  \/ InsertReturn /\ UNCHANGED outsideStation
  \/ ServiceTimerFire /\ UNCHANGED outsideStation
  \/ RenewReturn /\ UNCHANGED outsideStation
  \/ UpdatePieceStatus /\ UNCHANGED outsideStation
  \/ GetPieceInfo /\ UNCHANGED outsideStation
  \/ UpdateReturn /\ UNCHANGED outsideStation
  \/ TouchReturn /\ UNCHANGED outsideStation
  \/ PiecesReturn /\ UNCHANGED outsideStation
  \/ Cleanup /\ UNCHANGED outsideStation
  \/ DeactivateReturn /\ UNCHANGED outsideStation
  \/ Tick /\ UNCHANGED outsideStation

\* No guard is driven during a run of the managers.
GuardIdle == InitGuard(0, {NULL}) /\ HistoryIdle

\* The other manager is not in use during a run.
AuthIdle == InitAuth(0) /\ InitLoop /\ GuardIdle

StationIdle == InitStation(0)

InitStationRun == AuthIdle /\ InitStation(MaxStationCalls)

SpecStation == InitStationRun /\ [][NextStation]_vars

(* ====================================================================== *)
(* Specifications                                                          *)
(* ====================================================================== *)

\* A pending re-render is committed before the next timer, event or store
\* answer is handled; a consumer may call refreshSession() again at once.
NextAuth ==
  \/ Render /\ UNCHANGED outsideAuth
  \/ ManualRefresh /\ UNCHANGED outsideAuth
  \/ ~RenderPending /\ RefreshTimerFire /\ UNCHANGED outsideAuth
  \/ ~RenderPending /\ ActivityTimerFire /\ UNCHANGED outsideAuth
  \/ ~RenderPending /\ RetryTimerFire /\ UNCHANGED outsideAuth
  \/ ~RenderPending /\ RefreshReturn /\ UNCHANGED outsideAuth
  \/ ~RenderPending /\ SignOutCall /\ UNCHANGED outsideAuth
  \/ ~RenderPending /\ SignOutReturn /\ UNCHANGED outsideAuth
  \/ ~RenderPending /\ GetSessionReturn /\ UNCHANGED outsideAuth
  \/ ~RenderPending /\ ProfileReturn /\ UNCHANGED outsideAuth
  \/ ~RenderPending /\ AuthEvent /\ UNCHANGED outsideAuth
  \/ ~RenderPending /\ UserActivity /\ UNCHANGED outsideAuth

Init == InitAuth(MaxStimuli) /\ InitLoop /\ StationIdle /\ GuardIdle

SpecAuth == Init /\ [][NextAuth]_vars

\* The same runs with the history of signing out recorded.
RenewalPending ==
  BagCardinality([t \in {x \in BagToSet(tasks) : x.pc = "refresh"} |-> tasks[t]]) >= 1

\* The step just taken brought a session of its own: a sign-in event, the
\* session getSession() found, or the session of another subject.
SignInStep(step) ==
  \/ step.op \in {"SIGNED_IN", "INITIAL_SESSION"} /\ step.arg # NoSession
  \/ step.op = "TOKEN_REFRESHED" /\ step.arg = OtherSession
  \/ step.op = "getSessionReturn" /\ step.out = "session"

TrackSignOut ==
  signedOut' = IF last'.op = "signOutReturn" /\ last'.out = "ok" /\ RenewalPending'
               THEN TRUE
               ELSE IF SignInStep(last') THEN FALSE ELSE signedOut

outsideSignOut == <<stationVars, loopVars, guardVars, dimVars, timerVars, throttleVars, scanVars>>

NextSignOut ==
  \/ Render /\ TrackSignOut /\ UNCHANGED outsideSignOut
  \/ ManualRefresh /\ TrackSignOut /\ UNCHANGED outsideSignOut
  \/ ~RenderPending /\ RefreshTimerFire /\ TrackSignOut /\ UNCHANGED outsideSignOut
  \/ ~RenderPending /\ ActivityTimerFire /\ TrackSignOut /\ UNCHANGED outsideSignOut
  \/ ~RenderPending /\ RetryTimerFire /\ TrackSignOut /\ UNCHANGED outsideSignOut
  \/ ~RenderPending /\ RefreshReturn /\ TrackSignOut /\ UNCHANGED outsideSignOut
  \/ ~RenderPending /\ SignOutCall /\ TrackSignOut /\ UNCHANGED outsideSignOut
  \/ ~RenderPending /\ SignOutReturn /\ TrackSignOut /\ UNCHANGED outsideSignOut
  \/ ~RenderPending /\ GetSessionReturn /\ TrackSignOut /\ UNCHANGED outsideSignOut
  \/ ~RenderPending /\ ProfileReturn /\ TrackSignOut /\ UNCHANGED outsideSignOut
  \/ ~RenderPending /\ AuthEvent /\ TrackSignOut /\ UNCHANGED outsideSignOut
  \/ ~RenderPending /\ UserActivity /\ TrackSignOut /\ UNCHANGED outsideSignOut

SpecSignOut == Init /\ [][NextSignOut]_vars

\* The renewal and backoff machinery alone: no auth events and no consumer
\* calls other than refreshSession, over a longer run.
InitRetry == InitAuth(MaxRetryRun) /\ InitLoop /\ StationIdle /\ GuardIdle

NextRetry ==
  \/ Render /\ UNCHANGED outsideAuth
  \/ ManualRefresh /\ UNCHANGED outsideAuth
  \/ ~RenderPending /\ RefreshTimerFire /\ UNCHANGED outsideAuth
  \/ ~RenderPending /\ RetryTimerFire /\ UNCHANGED outsideAuth
  \/ ~RenderPending /\ RefreshReturn /\ UNCHANGED outsideAuth
  \/ ~RenderPending /\ SignOutReturn /\ UNCHANGED outsideAuth
  \/ ~RenderPending /\ GetSessionReturn /\ UNCHANGED outsideAuth
  \/ ~RenderPending /\ ProfileReturn /\ UNCHANGED outsideAuth

SpecRetry == InitRetry /\ [][NextRetry]_vars

\* Renewals started by hand while others are in flight or waiting to be
\* retried; initializeAuth stays suspended in getSession().
InitOverlap == InitAuth(MaxOverlapRun) /\ InitLoop /\ StationIdle /\ GuardIdle

NextOverlap ==
  \/ Render /\ UNCHANGED outsideAuth
  \/ ManualRefresh /\ UNCHANGED outsideAuth
  \/ ~RenderPending /\ RetryTimerFire /\ UNCHANGED outsideAuth
  \/ ~RenderPending /\ RefreshReturn /\ UNCHANGED outsideAuth
  \/ ~RenderPending /\ SignOutReturn /\ UNCHANGED outsideAuth

SpecOverlap == InitOverlap /\ [][NextOverlap]_vars

(* A long stream of pushed events: every renewal of the store pushes a    *)
(* TOKEN_REFRESHED with a later expiry, any earlier push may be delivered *)
(* again, and the subject signs out and in.  The stream is long enough    *)
(* for the recently-seen set to be pruned.                                *)
StreamSession(i) == MkSession("u1", ExpA + i)

Pushed == {i \in 1..MaxEventRun : eventKey("TOKEN_REFRESHED", StreamSession(i))
                                     \in SeqToSet(processedEvents)}

Newest == IF Pushed = {} THEN 0 ELSE CHOOSE i \in Pushed : \A j \in Pushed : j <= i

TokenPush ==
  \E i \in 1..(Newest + 1) :
    DeliverEvent(<<"TOKEN_REFRESHED", StreamSession(i)>>)

SessionPush ==
  \E e \in {<<"SIGNED_OUT", NoSession>>, <<"SIGNED_IN", PersistedSession>>} :
    DeliverEvent(e)

InitEvents == InitAuth(MaxEventRun) /\ InitLoop /\ StationIdle /\ GuardIdle

NextEvents ==
  \/ TokenPush /\ UNCHANGED outsideAuth
  \/ SessionPush /\ UNCHANGED outsideAuth
  \/ GetSessionReturn /\ UNCHANGED outsideAuth

SpecEvents == InitEvents /\ [][NextEvents]_vars


\* The hook with its loop detector, while time passes: effects run right
\* after the render that changed their dependencies.
InitLoopRun == InitAuth(MaxLoopRun) /\ InitLoop /\ StationIdle /\ GuardIdle

Settled == ~RenderPending /\ ~LoopEffectPending

NextLoop ==
  \/ LoopEffect /\ UNCHANGED <<stationVars, guardVars, historyVars, dimVars, timerVars, throttleVars, scanVars>>
  \/ LoopTick /\ UNCHANGED <<stationVars, guardVars, historyVars, dimVars, timerVars, throttleVars, scanVars>>
  \/ Render /\ UNCHANGED outsideAuth
  \/ Settled /\ ManualRefresh /\ UNCHANGED outsideAuth
  \/ Settled /\ RefreshReturn /\ UNCHANGED outsideAuth
  \/ Settled /\ SignOutCall /\ UNCHANGED outsideAuth
  \/ Settled /\ SignOutReturn /\ UNCHANGED outsideAuth
  \/ Settled /\ GetSessionReturn /\ UNCHANGED outsideAuth
  \/ Settled /\ ProfileReturn /\ UNCHANGED outsideAuth
  \/ Settled /\ AuthEvent /\ UNCHANGED outsideAuth

SpecLoop == InitLoopRun /\ [][NextLoop]_vars

\* One mounted guard under every required role; both managers idle.
InitGuardRun ==
  /\ InitAuth(0) /\ InitLoop /\ StationIdle /\ HistoryIdle
  /\ InitGuard(MaxGuardSteps, RequiredRoles)

NextGuard ==
  \/ GuardRender /\ UNCHANGED outsideGuard
  \/ GuardEffects /\ UNCHANGED outsideGuard
  \/ HookUpdate /\ UNCHANGED outsideGuard
  \/ LoadingTimeoutFire /\ UNCHANGED outsideGuard
  \/ EmergencyTimeoutFire /\ UNCHANGED outsideGuard
  \/ RetryTick /\ UNCHANGED outsideGuard
  \/ RetryClick /\ UNCHANGED outsideGuard
  \/ TroubleClick /\ UNCHANGED outsideGuard
  \/ Offline /\ UNCHANGED outsideGuard
  \/ Online /\ UNCHANGED outsideGuard
  \/ LeavePage /\ UNCHANGED outsideGuard
  \/ GuardTick /\ UNCHANGED outsideGuard

SpecGuard == InitGuardRun /\ [][NextGuard]_vars

(* ====================================================================== *)
(* Properties of the User Session Manager                                  *)
(* ====================================================================== *)

\* Store calls of one kind that have been issued and not yet answered.
InFlight(pc) ==
  BagCardinality([t \in {x \in BagToSet(tasks) : x.pc = pc} |-> tasks[t]])

RenewalsInFlight == InFlight("refresh")

EventKinds == {"SIGNED_OUT", "TOKEN_REFRESHED", "SIGNED_IN", "INITIAL_SESSION"}

\* C1: at most one supabase.auth.refreshSession() call of a manager
\* instance is in flight at any time.
C1_AtMostOneRenewalInFlight == RenewalsInFlight <= 1

\* C2: a non-forced refreshSession() (the renewal timer's or the inactivity
\* timer's) invoked while isRefreshing is true makes no store call and
\* leaves authState, the retry counter and the other timers unchanged.
C2_GuardedCallIsNoOp ==
  [][(last'.op \in {"refreshTimer", "activityTimer"} /\ authState.isRefreshing)
       => /\ last'.out = "guarded"
          /\ RenewalsInFlight' = RenewalsInFlight
          /\ UNCHANGED <<authState, retryCount, retryTimers>>
          /\ (last'.op = "refreshTimer" => UNCHANGED activityTimer)
          /\ (last'.op = "activityTimer" => UNCHANGED refreshTimer)]_vars

\* C3: a call of the exposed refreshSession() made while the store request
\* of an earlier such call has not returned issues no further store call.
ManualInFlight == \E t \in BagToSet(tasks) : t.root = "manual" /\ t.pc = "refresh"

C3_SecondCallIssuesNoStoreCall ==
  [][(last'.op = "manualRefresh" /\ ManualInFlight)
       => RenewalsInFlight' = RenewalsInFlight]_vars

\* C4: a renewal failing with an invalid/missing refresh credential leaves,
\* whatever the retry counter was, user = session = profile = null and
\* isRefreshing = false, resets the counter to 0 and schedules no retry.
C4_InvalidCredentialClearsSession ==
  [][(last'.op = "refreshReturn" /\ last'.out = "invalid")
       => /\ authState'.user = NULL
          /\ authState'.session = NoSession
          /\ authState'.profile = NULL
          /\ authState'.isRefreshing = FALSE
          /\ retryCount' = 0
          /\ retryTimers' = retryTimers
          /\ InFlight("signOut")' = InFlight("signOut")]_vars

\* C4 witness: such a failure arrived when the counter stood at 2.
C4_Witness ==
  /\ last.op = "refreshReturn" /\ last.out = "invalid" /\ last.pre = 2
  /\ retryCount = 0 /\ authState.session = NoSession

C9_FailedStartupIsUnauthenticated ==
  [][(last'.op = "getSessionReturn" /\ last'.out \in {"error", "noSession"})
       => /\ authState'.user = NULL
          /\ authState'.session = NoSession
          /\ authState'.profile = NULL
          /\ authState'.loading = FALSE
          /\ RenewalsInFlight' = RenewalsInFlight
          /\ UNCHANGED <<refreshTimer, activityTimer, retryTimers, retryCount>>
          /\ authLoopDetected' = FALSE
          /\ last.op = "mount"
               => /\ refreshTimer' = {} /\ activityTimer' = {}
                  /\ retryTimers' = EmptyBag /\ tasks' = EmptyBag]_vars

\* C9 witness: the first getSession() of the hook failed.
C9_Witness ==
  /\ last.op = "getSessionReturn" /\ last.out = "error"
  /\ fuel = MaxStimuli - 1 /\ initialized /\ tasks = EmptyBag

\* C10: a TOKEN_REFRESHED event carrying a session of the currently
\* authenticated subject replaces only the session: user and profile keep
\* their values and no Profile fetch is issued.
C10_TokenRefreshedKeepsProfile ==
  [][(/\ last'.op = "TOKEN_REFRESHED" /\ last'.out # "duplicate"
      /\ authState.user # NULL /\ last'.arg.user = authState.user)
       => /\ authState'.user = authState.user
          /\ authState'.profile = authState.profile
          /\ authState'.session = last'.arg
          /\ InFlight("profiles")' = InFlight("profiles")]_vars


(* ====================================================================== *)
(* Properties of the Station Service-Credential Manager                    *)
(* ====================================================================== *)

StationInFlight(pc) ==
  BagCardinality([c \in {x \in BagToSet(calls) : x.pc = pc} |-> calls[c]])

InitializeErrors ==
  {"Invalid station credentials or authentication failed", "data.error",
   "Authentication failed", "Failed to create service session"}

\* The local session is missing, expired or inactive.
LocalSessionUnusable ==
  \/ sessionData = NoServiceSession
  \/ sessionToken = 0
  \/ clock >= sessionData.expires_at
  \/ ~sessionData.active

\* C7: updatePieceStatus called while the local Service Session is missing,
\* expired or inactive starts exactly one initialize() and not yet the
\* atomic update; the atomic update is issued when that initialize() has
\* succeeded, still with one initialize() made; if the initialize() fails
\* the operation ends with the initialize's error and no atomic update call.
C7_LazyReauthentication ==
  [][/\ (done'.op = "updatePieceStatus" /\ LocalSessionUnusable)
          => /\ done'.out = "initialize" /\ done'.inits = 1
             /\ StationInFlight("authenticate")' = StationInFlight("authenticate") + 1
             /\ StationInFlight("update_piece_status")' =
                  StationInFlight("update_piece_status")
     /\ (/\ done'.root = "updatePieceStatus"
         /\ done'.op \in {"authenticateReturn", "insertReturn"})
          => /\ done'.inits = 1
             /\ StationInFlight("authenticate")' <= StationInFlight("authenticate")
             /\ CASE done'.out = "success" ->
                       StationInFlight("update_piece_status")' =
                         StationInFlight("update_piece_status") + 1
                  [] done'.out = "pending" ->
                       StationInFlight("update_piece_status")' =
                         StationInFlight("update_piece_status")
                  [] OTHER ->
                       /\ done'.out \in InitializeErrors
                       /\ BagCardinality(calls') = BagCardinality(calls) - 1
                       /\ StationInFlight("update_piece_status")' =
                            StationInFlight("update_piece_status")]_vars

\* C7 witness: the session created at hour 0 has expired, updatePieceStatus
\* has re-initialized once and its atomic update is now in flight.
C7_Witness ==
  /\ done.op = "insertReturn" /\ done.root = "updatePieceStatus"
  /\ done.out = "success" /\ done.inits = 1
  /\ Len(rows) = 2 /\ clock >= SessionHours
  /\ StationInFlight("update_piece_status") = 1

\* cleanup() was called right after a successful initialize() and nothing
\* else of the instance is in flight.
CleanupAfterInitialize ==
  /\ done.op = "cleanup" /\ done.out = "pending"
  /\ done.after = <<"insertReturn", "initialize", "success">>
  /\ BagCardinality(calls) = 1

\* C8: a successful initialize() followed immediately by cleanup() leaves
\* no armed renewal timer, no local session or token, and the row that
\* initialize() created inactive in the store.
C8_InitializeCleanupRoundTrip ==
  [][(CleanupAfterInitialize /\ done'.op = "deactivateReturn")
       => /\ serviceRefreshTimer' = {}
          /\ sessionData' = NoServiceSession
          /\ sessionToken' = 0
          /\ ~rows'[sessionData.id].active]_vars

\* C8, amended: the same round trip leaves no armed renewal timer and no
\* local session or token; the row is inactive in the store when the store
\* applied the update, and is left as it was when the update failed.
C8_RoundTripBestEffort ==
  [][(CleanupAfterInitialize /\ done'.op = "deactivateReturn")
       => /\ serviceRefreshTimer' = {}
          /\ sessionData' = NoServiceSession
          /\ sessionToken' = 0
          /\ done'.out = "ok" => ~rows'[sessionData.id].active
          /\ done'.out # "ok" => rows' = rows]_vars

\* C8 witness: only initialize() and cleanup() were called, nothing failed,
\* and the cleanup has ended.
C8_Witness ==
  /\ done.op = "deactivateReturn" /\ done.out = "ok"
  /\ done.after = <<"cleanup", "cleanup", "pending">>
  /\ budget = MaxStationCalls - 2
  /\ Len(rows) = 1 /\ ~rows[1].active
  /\ serviceRefreshTimer = {} /\ sessionData = NoServiceSession /\ sessionToken = 0

\* C11: when station verification answers with an error, reports failure,
\* returns no payload or throws, initialize() ends with {success: false}
\* and an error message; it sends no insert, creates no row, sets no local
\* session or token and arms no renewal timer.
C11_FailedVerificationCreatesNothing ==
  [][(done'.op = "authenticateReturn" /\ done'.out # "pending")
       => /\ done'.out \in InitializeErrors
          /\ rows' = rows
          /\ UNCHANGED <<sessionData, sessionToken, serviceRefreshTimer>>
          /\ StationInFlight("insert")' = StationInFlight("insert")
          /\ BagCardinality(calls') = BagCardinality(calls) - 1]_vars

\* C11 witness: the first initialize() of the instance was refused by the
\* verification ({success: false, error} payload).
C11_Witness ==
  /\ done.op = "authenticateReturn" /\ done.root = "initialize"
  /\ done.out = "data.error"
  /\ rows = <<>> /\ sessionData = NoServiceSession /\ sessionToken = 0
  /\ serviceRefreshTimer = {} /\ calls = EmptyBag

(* ====================================================================== *)
(* Properties of the loop detector                                         *)
(* ====================================================================== *)

\* loading has been true without interruption for more than 10 seconds,
\* measured from the instant the effect stored when loading became true,
\* and every effect that is due has run.
LoadingStuck ==
  /\ authState.loading
  /\ ~LoopEffectPending
  /\ \E start \in loadingStartRef : loopClock - start > LoopThresholdMs

\* C12: once loading has stayed true for more than 10 continuous seconds
\* the loop-detected flag is true (and storage has been cleared and the
\* local sign-out issued, followed by the redirect to /auth/login).
C12_StuckLoadingIsDetected ==
  LoadingStuck => authLoopDetected /\ hardReset \in {"signOutLocal", "redirected"}

\* The calls awaiting the atomic update that are new in this step.
NewUpdateCalls ==
  {c \in BagToSet(calls') :
     c.pc = "update_piece_status" /\ CopiesIn(c, calls') > CopiesIn(c, calls)}

\* C13: updatePieceStatus on a valid session issues exactly one rpc
\* update_piece_status_via_scanner, with the caller's barcode, status and
\* notes, the station identifier and the label 'Scanner: <station name>';
\* the answer of that rpc, whatever it is, ends the request without a
\* second one, and an error answer ends the operation with an error result.
C13_OneAtomicUpdateNoRetry ==
  [][/\ (/\ done'.op = "updatePieceStatus"
         /\ isValidSession(sessionData, sessionToken, clock))
          => /\ StationInFlight("update_piece_status")' =
                  StationInFlight("update_piece_status") + 1
             /\ StationInFlight("authenticate")' = StationInFlight("authenticate")
             /\ \A c \in NewUpdateCalls :
                  /\ c.sent.piece_barcode = c.args.barcode
                  /\ c.sent.new_status = c.args.newStatus
                  /\ c.sent.station_id_param = StationId
                  /\ c.sent.employee_name = <<"Scanner: ", StationName>>
                  /\ c.args.notes # "" => c.sent.notes = <<c.args.notes>>
     /\ done'.op = "updateReturn"
          => /\ StationInFlight("update_piece_status")' =
                  StationInFlight("update_piece_status") - 1
             /\ done'.out \in {"pending", "success", "error.message", "result.error",
                               "System error occurred"}
             /\ done'.out \notin {"pending", "success"}
                  => BagCardinality(calls') = BagCardinality(calls) - 1
     /\ done'.op = "touchReturn"
          => StationInFlight("update_piece_status")' =
               StationInFlight("update_piece_status")]_vars

\* C13 witness: on a valid session the store rejected the update
\* ({success: false, error}) and the operation has ended with that error,
\* nothing being in flight any more.
C13_Witness ==
  /\ done.op = "updateReturn" /\ done.out = "result.error" /\ done.inits = 0
  /\ done.after = <<"updatePieceStatus", "updatePieceStatus", "request">>
  /\ calls = EmptyBag /\ sessionData # NoServiceSession

(* ---------------------------------------------------------------------- *)
(* Properties of the guard                                                *)
(* ---------------------------------------------------------------------- *)

\* The states in which the guard may show the protected screen: nothing is
\* loading or being renewed, user and profile are there, the profile is
\* active and its rank reaches the rank of the required role.
Authorized(h, req) ==
  /\ ~h.loading /\ ~h.isRefreshing
  /\ h.user # NULL
  /\ h.profile # NoProfile
  /\ h.profile.active
  /\ req # NULL => roleHierarchy(h.profile.role) >= roleHierarchy(req)

\* C14: whenever a render of AuthGuard returns its children, the values
\* that render read from useAuth() are authorized: loading and isRefreshing
\* false, user and profile non-null, profile.active true and
\* rank(profile.role) >= rank(requiredRole); this in every render, also the
\* ones after user or profile changed following a successful render.
C14_ChildrenOnlyWhenAuthorized ==
  screen.kind = "children" => \A r \in rendered : Authorized(r.hook, requiredRole)

\* Some way out is on the screen: the retry screen, the "Having trouble?"
\* button, or the Force Reload and Go to Login buttons.
RetryAffordance == screen.kind = "retry" \/ screen.trouble \/ screen.forceReload

GuardTimerDue == TimerDue(guardTimers.timeout) \/ TimerDue(guardTimers.emergency)

\* C18: when loading || isRefreshing has been true for 15 seconds without
\* a break, the screen shows a retry affordance, and when it has been true
\* for 30 seconds the screen shows the emergency reset.
C18_BusyEscalates ==
  GuardSettled /\ ~GuardTimerDue =>
    \A since \in busySince :
      /\ guardClock - since >= LoadingTimeoutMs => RetryAffordance
      /\ guardClock - since >= EmergencyTimeoutMs => screen.kind = "emergency"

(* ---------------------------------------------------------------------- *)
(* Properties of signing out                                              *)
(* ---------------------------------------------------------------------- *)

SignedOutFields(st) == st.user = NULL /\ st.session = NoSession /\ st.profile = NULL

\* A step that completes a renewal: its answer, its TOKEN_REFRESHED event,
\* or a retry it scheduled.
RenewalCompletion(step) ==
  \/ step.op \in {"refreshReturn", "retryTimer"}
  \/ step.op = "TOKEN_REFRESHED" /\ step.arg = RenewedSession

\* C15: once signOut() has succeeded while a renewal was in flight, and
\* until something signs in again, no completion of a renewal (its answer,
\* its TOKEN_REFRESHED event, a retry it scheduled) changes user, session
\* or profile from null.
C15_LateRenewalKeepsBaseline ==
  [][(signedOut /\ SignedOutFields(authState) /\ RenewalCompletion(last'))
       => SignedOutFields(authState')]_vars

TimerOps == {"refreshTimer", "activityTimer", "retryTimer"}

\* C16: the step after signOut() was invoked is never a timer, armed before
\* the sign-out, that starts a renewal.
C16_NoTimerRenewalAfterSignOut ==
  [][last.op = "signOut" => ~(last'.op \in TimerOps /\ last'.out = "storeCall")]_vars

\* C19: every delivered auth event that is SIGNED_OUT or carries no session
\* leaves user, session and profile null and the renewal timer and the
\* inactivity timer cancelled, wherever in the sequence of events it comes.
C19_SignOutEventsClearState ==
  [][(last'.op \in EventKinds /\ (last'.op = "SIGNED_OUT" \/ last'.arg = NoSession))
       => /\ SignedOutFields(authState')
          /\ refreshTimer' = {}
          /\ activityTimer' = {}]_vars

(* ---------------------------------------------------------------------- *)
(* Properties of the rows of one station manager                          *)
(* ---------------------------------------------------------------------- *)

\* The rows of the instance that are marked active and have not expired.
ActiveRows == {i \in 1..Len(rows) : rows[i].active /\ clock < rows[i].expires_at}

\* C17: among the service_sessions rows created by one ServiceAuthClient
\* at most one is active at any time, whatever initialize, self-renewal,
\* re-initialization after a failed renewal, lazy re-authentication and
\* cleanup have run, also concurrently.
C17_AtMostOneActiveRow == Cardinality(ActiveRows) <= 1

(* ---------------------------------------------------------------------- *)
(* The dimension field                                                    *)
(* ---------------------------------------------------------------------- *)

InitDimensionRun ==
  /\ InitAuth(0) /\ InitLoop /\ StationIdle /\ InitGuard(0, {NULL})
  /\ signedOut = FALSE
  /\ TimersIdle
  /\ InitDimension(Dimensions)

NextDimension ==
  \/ SyncEffect /\ UNCHANGED outsideDimension
  \/ HandleFocus /\ UNCHANGED outsideDimension
  \/ HandleInputChange /\ UNCHANGED outsideDimension
  \/ HandleBlur /\ UNCHANGED outsideDimension

SpecDimension == InitDimensionRun /\ [][NextDimension]_vars

\* C20: parseInput inverts formatDimension: for the whole inches i >= 0
\* and the valid sixteenth fraction f the field holds,
\* parseInput(formatDimension(i, f)) = {inches: i, fraction: f}; "i f"
\* parses to {i, f}, "i" to {i, "0"} and f alone to {0, f}.
C20_ParseInvertsFormat ==
  /\ parseInput(formatDimension(value.inches, value.fraction)) = value
  /\ value.inches > 0 /\ value.fraction # Zero =>
       parseInput(toString(value.inches) \o <<" ">> \o value.fraction) = value
  /\ parseInput(toString(value.inches)) = Dimension(value.inches, Zero)
  /\ value.fraction # Zero => parseInput(value.fraction) = Dimension(0, value.fraction)

\* C20 witness: the field showed formatDimension(MaxInches, "15/16"), was
\* focused and left again, and handleBlur parsed the text back to the same
\* dimension.
C20_Witness ==
  /\ typed = "blur"
  /\ value = Dimension(MaxInches, VALID_FRACTIONS[Len(VALID_FRACTIONS)])
  /\ inputValue = toString(MaxInches) \o <<" ">> \o VALID_FRACTIONS[Len(VALID_FRACTIONS)]

(* ---------------------------------------------------------------------- *)
(* Properties of the retry cap                                            *)
(* ---------------------------------------------------------------------- *)

\* C21: when the signOut() that refreshSession awaits at the retry cap has
\* returned, whatever the store answered, user, session and profile are
\* null, the retry counter is 0 and no retry is pending.
C21_CapEndsUnauthenticated ==
  [][last'.op = "signOutReturn"
       => /\ SignedOutFields(authState')
          /\ retryCount' = 0
          /\ retryTimers' = EmptyBag]_vars

\* C22: in an unbroken run of transient renewal failures the first, second
\* and third failure each schedule a retry, after 2 s, 4 s and 8 s; no
\* sign-out is forced before the three retries have been made.
C22_ThreeBackoffRetries ==
  [][(last'.op = "refreshReturn" /\ last'.out = "transient" /\ retryCount < 3)
       => /\ retryTimers' = retryTimers (+) SetToBag({(2 ^ (retryCount + 1)) * 1000})
          /\ InFlight("signOut")' = InFlight("signOut")]_vars

\* C23: the renewal retry counter is within 0..3 in every reachable state,
\* also when several renewals of the instance overlap and fail.
C23_RetryCounterWithinCap == retryCount \in 0..maxRetries

\* C24: when the store call of refreshSession() succeeds, then on return the
\* retry counter is 0, isRefreshing is false, the state's session is the
\* Session the store returned and the renewal timer is armed from its expiry.
C24_SuccessReplacesSession ==
  [][(last'.op = "refreshReturn" /\ last'.out = "ok")
       => /\ retryCount' = 0
          /\ ~authState'.isRefreshing
          /\ authState'.session = last'.arg
          /\ refreshTimer' = setupTokenRefresh(last'.arg)]_vars

(* ---------------------------------------------------------------------- *)
(* Runs of the timer lines                                                 *)
(* ---------------------------------------------------------------------- *)
InitTimersRun ==
  /\ InitAuth(0) /\ InitLoop /\ StationIdle /\ InitGuard(0, {NULL})
  /\ signedOut = FALSE
  /\ InitDimension({Dimension(0, Zero)})
  /\ InitTimers(MaxTimerSteps) /\ InitThrottle(0) /\ InitScanner(0)

NextTimers ==
  \/ SetupTokenRefresh /\ UNCHANGED outsideTimers
  \/ UpdateLastActivity /\ UNCHANGED outsideTimers
  \/ SetupSessionRefresh /\ UNCHANGED outsideTimers
  \/ ClearUserTimers /\ UNCHANGED outsideTimers
  \/ CleanupTimer /\ UNCHANGED outsideTimers
  \/ TimeoutFire /\ UNCHANGED outsideTimers
  \/ TimerTick /\ UNCHANGED outsideTimers

SpecTimers == InitTimersRun /\ [][NextTimers]_vars

\* The renewal deadline of a session, in milliseconds: expiry minus 5 minutes.
RenewalDeadlineMs(session) == session.expires_at * 1000 - RefreshLeadMs

\* C25: for a session whose renewal deadline is more than one minute ahead,
\* setupTokenRefresh leaves exactly one renewal timer, of delay
\* (deadline - now); for a session that has already expired it leaves no
\* renewal timer and starts no renewal.
C25_LongTimerExactNoneWhenExpired ==
  [][armed'.op = "setupTokenRefresh"
       => LET s == armed'.session
              untilDeadline == RenewalDeadlineMs(s) - armed'.now
          IN  /\ (s.expires_at # 0 /\ untilDeadline > MinLongMs)
                   => /\ Cardinality(Pending("refreshTimeoutRef")') = 1
                      /\ \A t \in Pending("refreshTimeoutRef")' :
                           t.delay = untilDeadline /\ t.due = RenewalDeadlineMs(s)
              /\ s.expires_at * 1000 <= armed'.now
                   => /\ Pending("refreshTimeoutRef")' = {}
                      /\ renewals' = renewals]_vars

\* A long timer armed at a time that is not a whole second, replacing a
\* pending one.
C25_Witness ==
  /\ armed.op = "setupTokenRefresh"
  /\ armed.session = PersistedSession
  /\ armed.now = NowS * 1000 + TimerTickMs
  /\ armed.cancelled
  /\ \E t \in timeouts : t.line = "refreshTimeoutRef" /\ t.delay = (ExpA - NowS) * 1000 - RefreshLeadMs - TimerTickMs

\* C26: for a session whose renewal deadline has passed but which has not
\* yet expired, setupTokenRefresh leaves a renewal timer of
\* max(time to expiry - 10 s, 5 s), so a renewal is attempted before expiry.
C26_ShortTimerBeforeExpiry ==
  [][armed'.op = "setupTokenRefresh"
       => LET s == armed'.session
              untilExpiry == s.expires_at * 1000 - armed'.now
          IN  (RenewalDeadlineMs(s) <= armed'.now /\ untilExpiry > 0)
                => \E t \in Pending("refreshTimeoutRef")' :
                     t.delay = IF untilExpiry - ShortLeadMs > ShortFloorMs
                               THEN untilExpiry - ShortLeadMs ELSE ShortFloorMs]_vars

\* C27: on each timer line (the user manager's renewal timer and inactivity
\* timer, the station manager's renewal timer) at most one timeout is
\* pending; arming a line cancels the timeout it held.
C27_OneTimerPerLine ==
  \A line \in TimerLines :
    /\ Cardinality(Pending(line)) <= 1
    /\ \A t \in Pending(line) : t.id = handles[line]

\* A line has just been armed again while its previous timeout was pending.
C27_Witness ==
  /\ armed.op \in {"setupTokenRefresh", "updateLastActivity", "setupSessionRefresh"}
  /\ armed.cancelled
  /\ \E line \in TimerLines : Cardinality(Pending(line)) = 1 /\ nextId > 2

\* C28: the recently-seen set is a window of 10: handling an event adds its
\* fingerprint and drops only what is older than the 10 most recent ones, so
\* the set never exceeds 10 and holds the last min(k, 10) distinct processed
\* fingerprints.
C28_TenEntryWindow ==
  [][(last'.op \in EventKinds /\ last'.out # "duplicate")
       => LET added == Append(processedEvents, eventKey(last'.op, last'.arg))
          IN  /\ Len(processedEvents') <= MaxProcessed
              /\ processedEvents' =
                   IF Len(added) > MaxProcessed
                   THEN SubSeq(added, Len(added) - MaxProcessed + 1, Len(added))
                   ELSE added]_vars

\* C29: a SIGNED_IN event for the subject that is already authenticated, with
\* Profile and Session loaded, replaces only the session and re-arms the
\* renewal timer: user and profile keep their values, no Profile fetch is
\* issued and loading does not become true.
C29_RepeatedSignInKeepsProfile ==
  [][(/\ last'.op = "SIGNED_IN" /\ last'.out # "duplicate"
      /\ authState.user # NULL /\ last'.arg.user = authState.user
      /\ authState.profile # NULL /\ authState.session # NoSession)
       => /\ authState'.user = authState.user
          /\ authState'.profile = authState.profile
          /\ authState'.session = last'.arg
          /\ refreshTimer' = setupTokenRefresh(last'.arg)
          /\ InFlight("profiles")' = InFlight("profiles")
          /\ (authState'.loading => authState.loading)]_vars

\* C30: the 15-second and 30-second clocks and what they set are cleared once
\* the busy state is left: whenever loading and isRefreshing are both false
\* (and the guard has rendered and run its effects) no clock is pending,
\* neither flag they set is up, and the screen shows neither the emergency
\* reset nor the affordances of the loading timeout.
C30_IdleClearsBusyClocks ==
  (GuardSettled /\ screen.kind # "left" /\ ~Busy(hook))
    => /\ guardTimers = NoTimers
       /\ ~guard.loadingTimeout
       /\ ~guard.showEmergencyReset
       /\ screen.kind # "emergency"
       /\ ~screen.trouble /\ ~screen.forceReload

\* C31: the refreshing sub-state is entered only from authenticated:
\* isRefreshing never becomes true in a state whose user or session is null.
C31_RefreshingOnlyWhenAuthenticated ==
  [][(~authState.isRefreshing /\ authState'.isRefreshing)
       => (authState.user # NULL /\ authState.session # NoSession)]_vars

(* ---------------------------------------------------------------------- *)
(* Runs of the throttled activity handler                                  *)
(* ---------------------------------------------------------------------- *)
InitThrottleRun ==
  /\ InitAuth(0) /\ InitLoop /\ StationIdle /\ InitGuard(0, {NULL})
  /\ signedOut = FALSE
  /\ InitDimension({Dimension(0, Zero)})
  /\ InitTimers(0) /\ InitThrottle(MaxThrottleSteps) /\ InitScanner(0)

NextThrottle ==
  \/ ThrottledCall /\ UNCHANGED outsideThrottle
  \/ ThrottleTimeout /\ UNCHANGED outsideThrottle
  \/ ThrottleTick /\ UNCHANGED outsideThrottle

SpecThrottle == InitThrottleRun /\ [][NextThrottle]_vars

\* C32: any two executions of the throttled update (Activity Timestamp and
\* inactivity timer) are at least 60 seconds apart, whatever the timing of
\* the events and of the trailing timer.
C32_ThrottledOncePerMinute ==
  \A i \in 1..(Len(execTimes) - 1) : execTimes[i + 1] - execTimes[i] >= ThrottleDelayMs

RenewalAnswered(c) == c.pc = "renew" /\ calls' = Remove(calls, c)

\* What C34 says of every outcome but failure: a successful initialize()
\* arms one timeout 10 hours ahead; the timeout's callback sends an update
\* with expires_at = now + 12 h and last_activity = now; when the update
\* succeeds the row carries both and one timeout is armed 10 hours ahead.
RenewalSchedule ==
  /\ (done'.op = "insertReturn" /\ done'.out = "success")
       => serviceRefreshTimer' = {clock + RefreshHours}
  /\ (done'.op = "timer" /\ done'.out = "pending")
       => \E c \in BagToSet(calls') :
            /\ c.pc = "renew" /\ c.id = sessionData.id
            /\ c.at = clock /\ c.exp = clock + SessionHours
            /\ calls' = Add(calls, c)
  /\ (done'.op = "renewReturn" /\ done'.out = "renewed")
       => /\ serviceRefreshTimer' = {clock + RefreshHours}
          /\ \E c \in BagToSet(calls) :
               /\ RenewalAnswered(c)
               /\ rows'[c.id].expires_at = c.at + SessionHours
               /\ rows'[c.id].last_activity = c.at

\* A full initialize() is started and the update is not sent again.
ReinitializeAttempted ==
  /\ StationInFlight("authenticate")' = StationInFlight("authenticate") + 1
  /\ StationInFlight("renew")' = StationInFlight("renew") - 1
  /\ UNCHANGED <<rows, serviceRefreshTimer>>

C35_TouchFailureKeepsSuccess ==
  [][(done'.op = "touchReturn" /\ done'.root = "updatePieceStatus")
       => done'.out = "success"]_vars

\* C36: once cleanup() has been called no renewal timer of the instance
\* becomes armed unless an initialize() is started afterwards.  Every store
\* call in flight right after the cleanup() step was started before it, and
\* starting an initialize() arms nothing by itself: the step that follows
\* cleanup() leaves the timer unarmed.
C36_NoTimerAfterCleanup ==
  [][done.op = "cleanup" => serviceRefreshTimer' = {}]_vars

\* C37: in every reachable state of the user manager a loaded Profile
\* belongs to the loaded user: profile # null implies user # null and
\* profile.id = user.id.
C37_ProfileBelongsToUser ==
  authState.profile # NULL => (authState.user # NULL /\ authState.profile = authState.user)

\* C38: after a successful self-renewal the local validity check uses the
\* extended expiry: an operation issued while the local session's row is
\* active, has been extended beyond the local copy's expiry and has not
\* expired finds the session valid and starts no initialize().
C38_RenewedSessionStaysValid ==
  [][(/\ done'.op \in {"updatePieceStatus", "getPieceInfo"}
      /\ sessionData # NoServiceSession /\ sessionToken # 0 /\ sessionData.active
      /\ sessionData.id \in DOMAIN rows
      /\ rows[sessionData.id].active
      /\ rows[sessionData.id].expires_at > sessionData.expires_at
      /\ clock < rows[sessionData.id].expires_at)
       => done'.out = "request"]_vars

(* ---------------------------------------------------------------------- *)
(* Runs of the scanner page                                                *)
(* ---------------------------------------------------------------------- *)
InitScannerRun ==
  /\ InitAuth(0) /\ InitLoop /\ StationIdle /\ InitGuard(0, {NULL})
  /\ signedOut = FALSE
  /\ InitDimension({Dimension(0, Zero)})
  /\ InitTimers(0) /\ InitThrottle(0) /\ InitScanner(MaxScanSteps)

NextScanner ==
  \/ TypeBarcode /\ UNCHANGED outsideScanner
  \/ SelectStatus /\ UNCHANGED outsideScanner
  \/ SetAutoSubmit /\ UNCHANGED outsideScanner
  \/ HandleScan /\ UNCHANGED outsideScanner
  \/ FindPieceReturn /\ UNCHANGED outsideScanner
  \/ ClickUpdate /\ UNCHANGED outsideScanner
  \/ StatusUpdateReturn /\ UNCHANGED outsideScanner

SpecScanner == InitScannerRun /\ [][NextScanner]_vars

\* C39: with auto-submit enabled and a status selected, a scan of barcode B
\* that finds its piece issues one status update, for piece B and for no
\* other piece, whatever piece was displayed before.
C39_AutoSubmitUpdatesScannedPiece ==
  [][(/\ handler.pc = "findPiece" /\ handler'.pc # "findPiece"
      /\ scanned'.found
      /\ handler.autoSubmit /\ handler.selectedStatus # "")
       => issued' = Append(issued, StatusUpdate(handler.barcode, handler.selectedStatus))]_vars

\* The store answered a signOut() call of a consumer.
SignOutAnswered(res) ==
  /\ last'.op = "signOutReturn" /\ last'.out = res
  /\ \E t \in BagToSet(tasks) :
       t.pc = "signOut" /\ t.root = "signOut" /\ tasks' = Remove(tasks, t)

\* C40: when the store's sign-out call returns an error, signOut() leaves
\* user, session and profile as they were, loading is false again, and a
\* session that is still valid has a renewal timer armed.
C40_FailedSignOutKeepsRenewal ==
  [][SignOutAnswered("error")
       => /\ authState'.user = authState.user
          /\ authState'.session = authState.session
          /\ authState'.profile = authState.profile
          /\ authState'.loading = FALSE
          /\ (setupTokenRefresh(authState'.session) # {} => refreshTimer' # {})]_vars

====
